---- MODULE Spec2Model ----
(***************************************************************************)
(* Campus Life Planner: validators (scripts/validators.js), search         *)
(* (search.js), state (scripts/state.js), storage (storage.js) and the     *)
(* event handlers of scripts/main.js.                                      *)
(*                                                                         *)
(* A JavaScript string is a sequence of one-character strings.  A          *)
(* JavaScript value is a record [type, str, num]; a number is kept in      *)
(* hundredths (the duration grammar allows two decimals at most).          *)
(***************************************************************************)
EXTENDS Integers, Sequences, FiniteSets, TLC

VARIABLES
    jsEngine,       \* the JavaScript engine of the page (Date parsing, sort calls)
    op,             \* name of the last operation that ran ("init" before any)
    arg,            \* the arguments or the input of the last operation
    ret,            \* the value the last operation returned
    tasks,          \* appState.tasks
    tags,           \* appState.tags
    settings,       \* appState.settings
    localStorage,   \* the three keys of the page's localStorage (parsed, or absent)
    currentPage,    \* appState.currentPage
    modalOpen,      \* the task modal has class "active"
    editingTaskId,  \* appState.editingTaskId (0 stands for null)
    clock,          \* the wall clock new Date() reads
    searchQuery,    \* appState.searchQuery
    searchRegex,    \* appState.searchRegex (a RegExp object, with its lastIndex)
    caseSensitive,  \* appState.caseSensitive
    sortBy,         \* appState.sortBy
    sortOrder,      \* appState.sortOrder
    rendered        \* what the last ui.renderTasks put on the page

vars == <<jsEngine, op, arg, ret, tasks, tags, settings, localStorage,
          currentPage, modalOpen, editingTaskId, clock, searchQuery, searchRegex,
          caseSensitive, sortBy, sortOrder, rendered>>

appVars == <<tasks, tags, settings, localStorage, currentPage, modalOpen,
             editingTaskId, clock, searchQuery, searchRegex, caseSensitive,
             sortBy, sortOrder, rendered>>

(***************************************************************************)
(* Bounds                                                                  *)
(***************************************************************************)
MaxLen == 4         \* longest enumerated raw field string
MaxTasks == 2       \* longest task list
MaxQueryBody == 2   \* longest enumerated body after a command prefix
MaxClock == 2       \* last instant of the wall clock

(***************************************************************************)
(* Characters and JavaScript values                                        *)
(***************************************************************************)
UpperChars ==
    <<"A", "B", "C", "D", "E", "F", "G", "H", "I", "J", "K", "L", "M",
      "N", "O", "P", "Q", "R", "S", "T", "U", "V", "W", "X", "Y", "Z">>
LowerChars ==
    <<"a", "b", "c", "d", "e", "f", "g", "h", "i", "j", "k", "l", "m",
      "n", "o", "p", "q", "r", "s", "t", "u", "v", "w", "x", "y", "z">>

Digits == {"0", "1", "2", "3", "4", "5", "6", "7", "8", "9"}

UpperSet == {UpperChars[i] : i \in 1..Len(UpperChars)}
LowerSet == {LowerChars[i] : i \in 1..Len(LowerChars)}

IsUpper(c) == c \in UpperSet
IsLower(c) == c \in LowerSet
IsLetter(c) == IsUpper(c) \/ IsLower(c)
IsDigit(c) == c \in Digits
\* \w without the u flag: [A-Za-z0-9_]
IsWordChar(c) == IsLetter(c) \/ IsDigit(c) \/ c = "_"
\* \s, and what String.prototype.trim strips
IsWhitespace(c) == c \in {" ", "\n", "\t"}
\* what "." does not match
IsLineTerminator(c) == c = "\n"

LowerOf ==
    [c \in UpperSet |-> LowerChars[CHOOSE i \in 1..Len(UpperChars) : UpperChars[i] = c]]

toLowerCaseChar(c) == IF IsUpper(c) THEN LowerOf[c] ELSE c

toLowerCase(s) == [i \in 1..Len(s) |-> toLowerCaseChar(s[i])]

Str(s) == [type |-> "string", str |-> s, num |-> 0]
Num(n) == [type |-> "number", str |-> <<>>, num |-> n]
Undefined == [type |-> "undefined", str |-> <<>>, num |-> 0]

\* !v
Falsy(v) ==
    \/ v.type = "undefined"
    \/ v.type = "string" /\ v.str = <<>>
    \/ v.type = "number" /\ v.num = 0

RECURSIVE trimStart(_)
trimStart(s) ==
    IF s # <<>> /\ IsWhitespace(Head(s)) THEN trimStart(Tail(s)) ELSE s

RECURSIVE trimEnd(_)
trimEnd(s) ==
    IF s # <<>> /\ IsWhitespace(s[Len(s)])
    THEN trimEnd(SubSeq(s, 1, Len(s) - 1))
    ELSE s

trim(s) == trimEnd(trimStart(s))

DigitChars == <<"0", "1", "2", "3", "4", "5", "6", "7", "8", "9">>

DigitValue(c) == CHOOSE n \in 0..9 : DigitChars[n + 1] = c

RECURSIVE DigitsValue(_)
DigitsValue(s) ==
    IF s = <<>> THEN 0
    ELSE 10 * DigitsValue(SubSeq(s, 1, Len(s) - 1)) + DigitValue(s[Len(s)])

AllDigits(s) == \A i \in 1..Len(s) : IsDigit(s[i])

(***************************************************************************)
(* validators.js: the pattern table                                        *)
(***************************************************************************)
\* /^\S(?:.*\S)?$/
patterns_title(s) ==
    /\ Len(s) >= 1
    /\ ~IsWhitespace(s[1])
    /\ ~IsWhitespace(s[Len(s)])
    /\ \A i \in 2..(Len(s) - 1) : ~IsLineTerminator(s[i])

\* /^\d{4}-(0[1-9]|1[0-2])-(0[1-9]|[12]\d|3[01])$/
patterns_date(s) ==
    /\ Len(s) = 10
    /\ AllDigits(SubSeq(s, 1, 4))
    /\ s[5] = "-"
    /\ \/ s[6] = "0" /\ s[7] \in Digits \ {"0"}
       \/ s[6] = "1" /\ s[7] \in {"0", "1", "2"}
    /\ s[8] = "-"
    /\ \/ s[9] = "0" /\ s[10] \in Digits \ {"0"}
       \/ s[9] \in {"1", "2"} /\ s[10] \in Digits
       \/ s[9] = "3" /\ s[10] \in {"0", "1"}

\* /^[A-Za-z]+(?:[ -][A-Za-z]+)*$/
patterns_tag(s) ==
    /\ Len(s) >= 1
    /\ IsLetter(s[1])
    /\ IsLetter(s[Len(s)])
    /\ \A i \in 1..Len(s) : IsLetter(s[i]) \/ s[i] \in {" ", "-"}
    /\ \A i \in 1..(Len(s) - 1) : IsLetter(s[i]) \/ IsLetter(s[i + 1])

\* /\b(\w+)\s+\1\b/i : a word s[i..j], whitespace s[j+1..k-1], and the same
\* word again (ignoring case) at s[k..], ending on a word boundary
patterns_duplicateWord(s) ==
    \E i \in 1..Len(s) : \E j \in i..Len(s) : \E k \in (j + 2)..Len(s) :
        LET n == j - i + 1 IN
        /\ i = 1 \/ ~IsWordChar(s[i - 1])
        /\ \A x \in i..j : IsWordChar(s[x])
        /\ \A x \in (j + 1)..(k - 1) : IsWhitespace(s[x])
        /\ k + n - 1 <= Len(s)
        /\ toLowerCase(SubSeq(s, k, k + n - 1)) = toLowerCase(SubSeq(s, i, j))
        /\ k + n - 1 = Len(s) \/ ~IsWordChar(s[k + n])

\* /^(0|[1-9]\d*)(\.\d{1,2})?$/
patterns_duration(s) ==
    \E d \in 1..Len(s) :
        /\ AllDigits(SubSeq(s, 1, d))
        /\ d = 1 \/ s[1] # "0"
        /\ \/ d = Len(s)
           \/ /\ Len(s) - d \in {2, 3}
              /\ s[d + 1] = "."
              /\ AllDigits(SubSeq(s, d + 2, Len(s)))

\* parseFloat on a string whose trimmed form matches patterns.duration
\* (the only strings the code hands to it), in hundredths
parseFloat(s) ==
    LET t == trim(s)
        d == CHOOSE d \in 1..Len(t) :
                 AllDigits(SubSeq(t, 1, d)) /\ (d = Len(t) \/ t[d + 1] = ".")
        frac == SubSeq(t, d + 2, Len(t))
    IN  100 * DigitsValue(SubSeq(t, 1, d))
        + (IF Len(frac) = 1 THEN 10 * DigitsValue(frac) ELSE DigitsValue(frac))

(***************************************************************************)
(* new Date(date + 'T00:00:00Z') for a string that matches patterns.date   *)
(***************************************************************************)
IsLeapYear(y) == (y % 4 = 0 /\ y % 100 # 0) \/ y % 400 = 0

DaysInMonth(y, m) ==
    IF m = 2 THEN (IF IsLeapYear(y) THEN 29 ELSE 28)
    ELSE IF m \in {4, 6, 9, 11} THEN 30 ELSE 31

IsCalendarDate(s) ==
    DigitsValue(SubSeq(s, 9, 10))
        <= DaysInMonth(DigitsValue(SubSeq(s, 1, 4)), DigitsValue(SubSeq(s, 6, 7)))

Engines == {"V8", "SpiderMonkey"}

\* isNaN(new Date(date + 'T00:00:00Z').getTime()).  A day of 29..31 that the
\* month does not have is outside the ISO format; what the engine does with
\* it is implementation-defined: V8 accepts any day 01..31 and rolls over
\* into the next month, SpiderMonkey and JavaScriptCore give Invalid Date.
DateIsNaN(s, engine) ==
    IF IsCalendarDate(s) THEN FALSE ELSE engine # "V8"

(***************************************************************************)
(* validators.js: field validators                                         *)
(***************************************************************************)
TitleMaxLength == 100
TagMaxLength == 50

Valid == [valid |-> TRUE, error |-> ""]
Invalid(msg) == [valid |-> FALSE, error |-> msg]

validateTitle(title) ==
    IF Falsy(title) \/ title.type # "string" THEN Invalid("Title is required")
    ELSE LET trimmed == trim(title.str) IN
         IF Len(trimmed) = 0 THEN Invalid("Title cannot be empty")
         ELSE IF Len(trimmed) > TitleMaxLength
              THEN Invalid("Title must be 100 characters or less")
         ELSE IF ~patterns_title(trimmed)
              THEN Invalid("Title cannot have leading/trailing spaces or consecutive spaces")
         ELSE IF patterns_duplicateWord(trimmed)
              THEN Invalid("Title contains duplicate consecutive words")
         ELSE Valid

\* validateDuration without its upper limit
validateDuration_noLimit(duration) ==
    IF Falsy(duration) \/ duration.type # "string" THEN Invalid("Duration is required")
    ELSE IF Len(trim(duration.str)) = 0 THEN Invalid("Duration cannot be empty")
    ELSE IF ~patterns_duration(trim(duration.str))
         THEN Invalid("Duration must be a positive number with up to 2 decimal places")
    ELSE Valid

validateDuration(duration) ==
    IF Falsy(duration) \/ duration.type # "string" THEN Invalid("Duration is required")
    ELSE LET trimmed == trim(duration.str) IN
         IF Len(trimmed) = 0 THEN Invalid("Duration cannot be empty")
         ELSE IF ~patterns_duration(trimmed)
              THEN Invalid("Duration must be a positive number with up to 2 decimal places")
         ELSE IF parseFloat(trimmed) < 0 THEN Invalid("Duration must be positive")
         ELSE IF parseFloat(trimmed) > 1000000
              THEN Invalid("Duration must be less than 10000")
         ELSE Valid

validateDate(date, engine) ==
    IF Falsy(date) \/ date.type # "string" THEN Invalid("Date is required")
    ELSE IF ~patterns_date(date.str) THEN Invalid("Date must be in YYYY-MM-DD format")
    ELSE IF DateIsNaN(date.str, engine) THEN Invalid("Invalid date")
    ELSE Valid

validateTag(tag) ==
    IF Falsy(tag) \/ tag.type # "string" THEN Invalid("Tag is required")
    ELSE LET trimmed == trim(tag.str) IN
         IF Len(trimmed) = 0 THEN Invalid("Tag cannot be empty")
         ELSE IF Len(trimmed) > TagMaxLength
              THEN Invalid("Tag must be 50 characters or less")
         ELSE IF ~patterns_tag(trimmed)
              THEN Invalid("Tag can only contain letters, spaces, and hyphens")
         ELSE Valid

\* validateTask that does not look at the tag
validateTask_withoutTag(task, engine) ==
    LET failed == {f \in {"title", "dueDate", "duration"} :
                      \/ f = "title" /\ ~validateTitle(task.title).valid
                      \/ f = "dueDate" /\ ~validateDate(task.dueDate, engine).valid
                      \/ f = "duration" /\ ~validateDuration(task.duration).valid}
    IN  [valid |-> failed = {},
         errors |-> [f \in failed |->
                        IF f = "title" THEN validateTitle(task.title).error
                        ELSE IF f = "dueDate" THEN validateDate(task.dueDate, engine).error
                        ELSE validateDuration(task.duration).error]]

\* errors is kept as the set of failing field names plus the message of each
validateTask(task, engine) ==
    LET t == validateTitle(task.title)
        d == validateDate(task.dueDate, engine)
        u == validateDuration(task.duration)
        g == validateTag(task.tag)
        failed == {f \in {"title", "dueDate", "duration", "tag"} :
                      \/ f = "title" /\ ~t.valid
                      \/ f = "dueDate" /\ ~d.valid
                      \/ f = "duration" /\ ~u.valid
                      \/ f = "tag" /\ ~g.valid}
    IN  [valid |-> failed = {},
         errors |-> [f \in failed |->
                        IF f = "title" THEN t.error
                        ELSE IF f = "dueDate" THEN d.error
                        ELSE IF f = "duration" THEN u.error
                        ELSE g.error]]

(***************************************************************************)
(* String(value)                                                           *)
(***************************************************************************)
RECURSIVE IntToString(_)
IntToString(n) ==
    IF n < 10 THEN <<DigitChars[n + 1]>>
    ELSE IntToString(n \div 10) \o <<DigitChars[(n % 10) + 1]>>

\* a non-negative number kept in hundredths, as JavaScript prints it
NumberToString(n) ==
    LET whole == IntToString(n \div 100)
        frac == n % 100
    IN  IF frac = 0 THEN whole
        ELSE IF frac % 10 = 0 THEN whole \o <<".">> \o IntToString(frac \div 10)
        ELSE IF frac < 10 THEN whole \o <<".", "0">> \o IntToString(frac)
        ELSE whole \o <<".">> \o IntToString(frac)

\* String(v || '')
StringOrEmpty(v) ==
    IF Falsy(v) THEN <<>>
    ELSE IF v.type = "string" THEN v.str
    ELSE NumberToString(v.num)

(***************************************************************************)
(* RegExp objects.  The patterns of the model are written over literal     *)
(* characters and the metacharacters | ^ $ . [ ; a [ is never closed, so   *)
(* a pattern that holds one is a SyntaxError.                              *)
(***************************************************************************)
NullRegex ==
    [isNull |-> TRUE, source |-> <<>>, ignoreCase |-> FALSE, global |-> FALSE,
     lastIndex |-> 0]

RegExpObject(pattern, flags) ==
    [isNull |-> FALSE, source |-> pattern,
     ignoreCase |-> flags \in {"i", "gi", "ig"}, global |-> flags \in {"g", "gi", "ig"},
     lastIndex |-> 0]

\* new RegExp(pattern, flags) throws
RegExpSyntaxError(pattern) ==
    \E i \in 1..Len(pattern) :
        pattern[i] = "[" /\ \A j \in (i + 1)..Len(pattern) : pattern[j] # "]"

\* the flag strings over g and i that new RegExp takes; any other letter, or
\* a letter given twice, is a SyntaxError too
ValidFlags == {"", "i", "g", "gi", "ig"}

\* compileRegex that swallows the SyntaxError without a message
compileRegex_noMessage(pattern, flags) ==
    IF Falsy(pattern) \/ pattern.type # "string" \/ RegExpSyntaxError(pattern.str)
       \/ flags \notin ValidFlags
    THEN [regex |-> NullRegex, error |-> ""]
    ELSE [regex |-> RegExpObject(pattern.str, flags), error |-> ""]

\* compileRegex that lets the empty pattern through to new RegExp
compileRegex_compilesEmpty(pattern, flags) ==
    IF pattern.type # "string"
    THEN [regex |-> NullRegex, error |-> ""]
    ELSE IF flags \notin ValidFlags \/ RegExpSyntaxError(pattern.str)
         THEN [regex |-> NullRegex, error |-> "Invalid regex: SyntaxError"]
         ELSE [regex |-> RegExpObject(pattern.str, flags), error |-> ""]

\* compileRegex(pattern, flags): { regex, error }
compileRegex(pattern, flags) ==
    IF Falsy(pattern) \/ pattern.type # "string"
    THEN [regex |-> NullRegex, error |-> ""]
    ELSE IF flags \notin ValidFlags
         THEN [regex |-> NullRegex,
               error |-> "Invalid regex: Invalid flags supplied to RegExp constructor"]
    ELSE IF RegExpSyntaxError(pattern.str)
         THEN [regex |-> NullRegex,
               error |-> "Invalid regex: Invalid regular expression: Unterminated character class"]
         ELSE [regex |-> RegExpObject(pattern.str, flags), error |-> ""]

\* the alternatives of a pattern, in order
RECURSIVE Alternatives(_)
Alternatives(p) ==
    IF \A i \in 1..Len(p) : p[i] # "|" THEN <<p>>
    ELSE LET k == CHOOSE k \in 1..Len(p) :
                      p[k] = "|" /\ \A i \in 1..(k - 1) : p[i] # "|"
         IN  <<SubSeq(p, 1, k - 1)>> \o Alternatives(SubSeq(p, k + 1, Len(p)))

CharMatches(c, pc, ignoreCase) ==
    IF ignoreCase THEN toLowerCaseChar(c) = toLowerCaseChar(pc) ELSE c = pc

\* match alt[i..] against s from offset p (0-based): the end offset, or -1
RECURSIVE MatchAlt(_, _, _, _, _)
MatchAlt(alt, i, s, p, ignoreCase) ==
    IF i > Len(alt) THEN p
    ELSE IF alt[i] = "^"
         THEN (IF p = 0 THEN MatchAlt(alt, i + 1, s, p, ignoreCase) ELSE -1)
    ELSE IF alt[i] = "$"
         THEN (IF p = Len(s) THEN MatchAlt(alt, i + 1, s, p, ignoreCase) ELSE -1)
    ELSE IF alt[i] = "."
         THEN (IF p < Len(s) /\ ~IsLineTerminator(s[p + 1])
               THEN MatchAlt(alt, i + 1, s, p + 1, ignoreCase) ELSE -1)
    ELSE IF p < Len(s) /\ CharMatches(s[p + 1], alt[i], ignoreCase)
         THEN MatchAlt(alt, i + 1, s, p + 1, ignoreCase)
         ELSE -1

\* the first alternative that matches at offset p decides: end offset or -1
RECURSIVE MatchAlts(_, _, _, _, _)
MatchAlts(alts, a, s, p, ignoreCase) ==
    IF a > Len(alts) THEN -1
    ELSE LET e == MatchAlt(alts[a], 1, s, p, ignoreCase) IN
         IF e # -1 THEN e ELSE MatchAlts(alts, a + 1, s, p, ignoreCase)

MatchAt(regex, s, p) == MatchAlts(Alternatives(regex.source), 1, s, p, regex.ignoreCase)

\* the leftmost offset from p on at which the pattern matches, or -1
RECURSIVE FirstMatch(_, _, _, _)
FirstMatch(alts, s, p, ignoreCase) ==
    IF p > Len(s) THEN -1
    ELSE IF MatchAlts(alts, 1, s, p, ignoreCase) # -1 THEN p
    ELSE FirstMatch(alts, s, p + 1, ignoreCase)

\* RegExp.prototype.exec: [found, index, end, regex] where regex is the
\* object afterwards.  A global regex starts at its lastIndex and leaves
\* lastIndex at the end of the match, or at 0 when it fails.
RegExpExec(regex, s) ==
    LET start == IF regex.global THEN regex.lastIndex ELSE 0
        alts == Alternatives(regex.source)
        p == FirstMatch(alts, s, start, regex.ignoreCase)
    IN  IF p = -1
        THEN [found |-> FALSE, index |-> 0, end |-> 0,
              regex |-> IF regex.global THEN [regex EXCEPT !.lastIndex = 0]
                        ELSE regex]
        ELSE LET e == MatchAlts(alts, 1, s, p, regex.ignoreCase) IN
             [found |-> TRUE, index |-> p, end |-> e,
              regex |-> IF regex.global THEN [regex EXCEPT !.lastIndex = e]
                        ELSE regex]

\* regex.test(s)
RegExpTest(regex, s) == RegExpExec(regex, s)

(***************************************************************************)
(* validators.js: escapeHtml, highlightMatches.  HTML is kept as a         *)
(* sequence of chunks: a character of the text, an entity the escaping     *)
(* wrote, or a tag the highlighter wrote; the string is their join.        *)
(***************************************************************************)
HtmlSpecial == {"<", ">", "&"}

escapeHtmlChar(c) ==
    IF c = "<" THEN "&lt;"
    ELSE IF c = ">" THEN "&gt;"
    ELSE IF c = "&" THEN "&amp;"
    ELSE c

\* div.textContent = text; div.innerHTML
escapeHtml(text) == [i \in 1..Len(text) |-> escapeHtmlChar(text[i])]

\* text.replace(regex, fn) from offset pos on, the regex scanning from
\* `from`: unmatched text is copied as it is, a match is replaced by
\* <mark> + escapeHtml(match) + </mark>.  Without the g flag only the first
\* match is replaced; with it, an empty match advances the scan by one.
RECURSIVE ReplaceFrom(_, _, _, _)
ReplaceFrom(text, regex, pos, from) ==
    LET alts == Alternatives(regex.source)
        p == FirstMatch(alts, text, from, regex.ignoreCase)
    IN  IF p = -1 THEN SubSeq(text, pos + 1, Len(text))
        ELSE LET e == MatchAlts(alts, 1, text, p, regex.ignoreCase)
                 marked == SubSeq(text, pos + 1, p) \o <<"<mark>">>
                           \o escapeHtml(SubSeq(text, p + 1, e)) \o <<"</mark>">>
             IN  IF ~regex.global THEN marked \o SubSeq(text, e + 1, Len(text))
                 ELSE marked \o ReplaceFrom(text, regex, e, IF e = p THEN e + 1 ELSE e)

\* highlightMatches(text, regex); text is a string
highlightMatches(text, regex) ==
    IF regex.isNull \/ text = <<>> THEN text
    ELSE ReplaceFrom(text, regex, 0, 0)

\* the regex after String.prototype.replace: lastIndex is 0 again
AfterReplace(regex) == IF regex.global THEN [regex EXCEPT !.lastIndex = 0] ELSE regex

\* search.highlightText(text, regex); text is any value
highlightText(text, regex) ==
    IF regex.isNull \/ Falsy(text) THEN StringOrEmpty(text)
    ELSE highlightMatches(StringOrEmpty(text), regex)

(***************************************************************************)
(* search.js                                                               *)
(***************************************************************************)
TagPrefix == <<"@", "t", "a", "g", ":">>
DatePrefix == <<"@", "d", "a", "t", "e", ":">>

\* the tag pattern without its $ anchor: /^@tag:(\w+)/i
tagMatch_unanchored(q) ==
    IF /\ Len(q) > Len(TagPrefix)
       /\ toLowerCase(SubSeq(q, 1, Len(TagPrefix))) = TagPrefix
       /\ IsWordChar(q[Len(TagPrefix) + 1])
    THEN LET e == CHOOSE e \in (Len(TagPrefix) + 1)..Len(q) :
                      /\ \A i \in (Len(TagPrefix) + 1)..e : IsWordChar(q[i])
                      /\ e = Len(q) \/ ~IsWordChar(q[e + 1])
         IN  SubSeq(q, Len(TagPrefix) + 1, e)
    ELSE <<>>

\* query.match(/^@tag:(\w+)$/i): the captured word, or <<>> when no match
tagMatch(q) ==
    IF /\ Len(q) > Len(TagPrefix)
       /\ toLowerCase(SubSeq(q, 1, Len(TagPrefix))) = TagPrefix
       /\ \A i \in (Len(TagPrefix) + 1)..Len(q) : IsWordChar(q[i])
    THEN SubSeq(q, Len(TagPrefix) + 1, Len(q))
    ELSE <<>>

\* query.match(/^@date:(\d{4}-\d{2}-\d{2})$/): the captured date, or <<>>
dateMatch(q) ==
    IF /\ Len(q) = Len(DatePrefix) + 10
       /\ SubSeq(q, 1, Len(DatePrefix)) = DatePrefix
       /\ LET d == SubSeq(q, Len(DatePrefix) + 1, Len(q)) IN
          /\ AllDigits(SubSeq(d, 1, 4)) /\ d[5] = "-"
          /\ AllDigits(SubSeq(d, 6, 7)) /\ d[8] = "-"
          /\ AllDigits(SubSeq(d, 9, 10))
    THEN SubSeq(q, Len(DatePrefix) + 1, Len(q))
    ELSE <<>>

\* parseQuery(query): { command, pattern }; command "null" stands for null.
\* A truthy query that is not a string has no match method: TypeError.
parseQuery(query) ==
    IF Falsy(query) THEN [command |-> "null", pattern |-> <<>>, threw |-> FALSE]
    ELSE IF query.type # "string"
         THEN [command |-> "null", pattern |-> <<>>, threw |-> TRUE]
    ELSE IF tagMatch(query.str) # <<>>
         THEN [command |-> "tag", pattern |-> tagMatch(query.str), threw |-> FALSE]
    ELSE IF dateMatch(query.str) # <<>>
         THEN [command |-> "date", pattern |-> dateMatch(query.str), threw |-> FALSE]
    ELSE [command |-> "null", pattern |-> query.str, threw |-> FALSE]

\* applyCommand comparing the tag without regard to case
applyCommand_ignoreCase(ts, command, pattern) ==
    IF command = "tag"
    THEN SelectSeq(ts, LAMBDA t : toLowerCase(t.tag.str) = toLowerCase(pattern))
    ELSE IF command = "date"
         THEN SelectSeq(ts, LAMBDA t : t.dueDate = Str(pattern))
         ELSE ts

\* applyCommand(tasks, command, pattern); === on a string
applyCommand(ts, command, pattern) ==
    IF command = "tag"
    THEN SelectSeq(ts, LAMBDA t : t.tag = Str(pattern))
    ELSE IF command = "date"
         THEN SelectSeq(ts, LAMBDA t : t.dueDate = Str(pattern))
         ELSE ts

SearchFields == <<"title", "tag", "dueDate">>

\* fields.some(field => regex.test(String(task[field] || ''))): stops at the
\* first field that matches; every test moves the lastIndex of the regex
RECURSIVE someField(_, _, _)
someField(task, fields, regex) ==
    IF fields = <<>> THEN [hit |-> FALSE, regex |-> regex]
    ELSE LET r == RegExpTest(regex, StringOrEmpty(task[Head(fields)])) IN
         IF r.found THEN [hit |-> TRUE, regex |-> r.regex]
         ELSE someField(task, Tail(fields), r.regex)

\* tasks.filter(task => fields.some(...)) with the one regex object
RECURSIVE filterTasks(_, _, _)
filterTasks(ts, regex, fields) ==
    IF ts = <<>> THEN [tasks |-> <<>>, regex |-> regex]
    ELSE LET h == someField(Head(ts), fields, regex)
             rest == filterTasks(Tail(ts), h.regex, fields)
         IN  [tasks |-> (IF h.hit THEN <<Head(ts)>> ELSE <<>>) \o rest.tasks,
              regex |-> rest.regex]

\* searchTasks(tasks, regex, fields)
searchTasks(ts, regex, fields) ==
    IF regex.isNull THEN [tasks |-> ts, regex |-> regex]
    ELSE filterTasks(ts, regex, fields)

\* performSearch(tasks, query, caseSensitive): { tasks, error }; regex is
\* the RegExp the call compiled (NullRegex when it compiled none) and threw
\* says that the call raised instead of returning
performSearch(ts, query, cs) ==
    IF Falsy(query)
    THEN [tasks |-> ts, error |-> "", regex |-> NullRegex, threw |-> FALSE]
    ELSE LET parsed == parseQuery(query) IN
         IF parsed.threw
         THEN [tasks |-> <<>>, error |-> "", regex |-> NullRegex, threw |-> TRUE]
         ELSE IF parsed.command # "null"
         THEN [tasks |-> applyCommand(ts, parsed.command, parsed.pattern),
               error |-> "", regex |-> NullRegex, threw |-> FALSE]
         ELSE LET compiled == compileRegex(Str(parsed.pattern),
                                           IF cs THEN "g" ELSE "gi") IN
              IF compiled.regex.isNull
              THEN [tasks |-> <<>>, error |-> compiled.error,
                    regex |-> NullRegex, threw |-> FALSE]
              ELSE LET found == searchTasks(ts, compiled.regex, SearchFields) IN
                   [tasks |-> found.tasks, error |-> "",
                    regex |-> found.regex, threw |-> FALSE]

(***************************************************************************)
(* Inputs of the calls below                                               *)
(***************************************************************************)
StringsUpTo(chars, n) == UNION {[1..k -> chars] : k \in 0..n}

RECURSIVE Repeat(_, _)
Repeat(c, n) == IF n = 0 THEN <<>> ELSE <<c>> \o Repeat(c, n - 1)

MkDate(y, m, d) == y \o <<"-">> \o m \o <<"-">> \o d

Date0929 == MkDate(<<"2", "0", "2", "5">>, <<"0", "9">>, <<"2", "9">>)
Date0230 == MkDate(<<"2", "0", "2", "5">>, <<"0", "2">>, <<"3", "0">>)
Date1301 == MkDate(<<"2", "0", "2", "5">>, <<"1", "3">>, <<"0", "1">>)

FieldChars == {"a", "A", "1", " ", "-", "\n"}

DateStrings ==
    {MkDate(y, m, d) :
        y \in {<<"2", "0", "2", "5">>, <<"2", "0", "2", "4">>},
        m \in {<<"0", "0">>, <<"0", "2">>, <<"0", "9">>, <<"1", "2">>, <<"1", "3">>},
        d \in {<<"0", "0">>, <<"0", "1">>, <<"2", "9">>, <<"3", "0">>, <<"3", "1">>,
               <<"3", "2">>}}
    \cup {<<"2", "0", "2", "5", "/", "0", "9", "/", "2", "9">>,
          <<"2", "9", "-", "0", "9", "-", "2", "0", "2", "5">>,
          <<"2", "0", "2", "5", "-", "9", "-", "2", "9">>,
          Date0929 \o <<" ">>, <<" ">> \o Date0929}

LongStrings ==
    {Repeat("a", TagMaxLength), Repeat("a", TagMaxLength + 1),
     <<" ">> \o Repeat("a", TagMaxLength),
     Repeat("a", TitleMaxLength), Repeat("a", TitleMaxLength + 1),
     <<" ">> \o Repeat("a", TitleMaxLength)}

FieldInputs ==
    {Str(s) : s \in StringsUpTo(FieldChars, MaxLen) \cup DateStrings \cup LongStrings}
    \cup {Undefined, Num(9000)}

NoArg == [none |-> TRUE]
NoRet == [none |-> TRUE]

(***************************************************************************)
(* storage.js                                                              *)
(***************************************************************************)
Academic == <<"A", "c", "a", "d", "e", "m", "i", "c">>
Personal == <<"P", "e", "r", "s", "o", "n", "a", "l">>
Social == <<"S", "o", "c", "i", "a", "l">>
Work == <<"W", "o", "r", "k">>
Deadline == <<"D", "e", "a", "d", "l", "i", "n", "e">>
Project == <<"P", "r", "o", "j", "e", "c", "t">>

defaultTags == <<Academic, Personal, Social, Work, Deadline, Project>>

defaultSettings ==
    [unit |-> "minutes", weeklyCap |-> "20", caseSensitiveSearch |-> "false"]

Absent == [present |-> FALSE, value |-> <<>>]
Stored(v) == [present |-> TRUE, value |-> v]

EmptyStorage == [tasks |-> Absent, settings |-> Absent, tags |-> Absent]

\* { ...a, ...b }
Merge(a, b) ==
    [k \in DOMAIN a \cup DOMAIN b |-> IF k \in DOMAIN b THEN b[k] ELSE a[k]]

\* JSON.parse(JSON.stringify(v)) is the identity on the values of the model
loadTasks(ls) == IF ls.tasks.present THEN ls.tasks.value ELSE <<>>

loadSettings(ls) ==
    IF ls.settings.present THEN Merge(defaultSettings, ls.settings.value)
    ELSE defaultSettings

loadTags(ls) == IF ls.tags.present THEN ls.tags.value ELSE defaultTags

saveTasks(ls, ts) == [ls EXCEPT !.tasks = Stored(ts)]
saveSettings(ls, st) == [ls EXCEPT !.settings = Stored(st)]
saveTags(ls, tg) == [ls EXCEPT !.tags = Stored(tg)]

\* clearAll: removeItem on the three keys
clearAll(ls) == EmptyStorage

\* what JSON.parse can put under a key of the payload: nothing, null, a
\* (non-empty) string, an array or a plain object
JsonKinds == {"absent", "null", "string", "array", "object"}

Truthy(kind) == kind \notin {"absent", "null"}
IsArray(kind) == kind = "array"
TypeofObject(kind) == kind \in {"null", "array", "object"}

\* an import payload: the text of the file, as JSON.parse sees it.  tasks
\* and tags hold the elements when they are arrays, settings holds the own
\* string-keyed properties when it is an object (none for an empty array)
Payload(parses, tasksKind, ts, settingsKind, st, tagsKind, tg) ==
    [parses |-> parses, tasksKind |-> tasksKind, tasks |-> ts,
     settingsKind |-> settingsKind, settings |-> st,
     tagsKind |-> tagsKind, tags |-> tg]

\* !task.id || !task.title || !task.dueDate || task.duration === undefined || !task.tag
TaskLacksField(t) ==
    \/ t.id = 0
    \/ Falsy(t.title)
    \/ Falsy(t.dueDate)
    \/ t.duration.type = "undefined"
    \/ Falsy(t.tag)

\* importData without the check of the tags array
storage_importData_noTagsCheck(ls, data) ==
    IF ~data.parses
    THEN [success |-> FALSE, error |-> "JSON parse error", storage |-> ls]
    ELSE IF ~Truthy(data.tasksKind) \/ ~IsArray(data.tasksKind)
    THEN [success |-> FALSE, error |-> "Invalid data: missing or invalid tasks array",
          storage |-> ls]
    ELSE IF ~Truthy(data.settingsKind) \/ ~TypeofObject(data.settingsKind)
    THEN [success |-> FALSE, error |-> "Invalid data: missing or invalid settings",
          storage |-> ls]
    ELSE IF \E i \in 1..Len(data.tasks) : TaskLacksField(data.tasks[i])
    THEN [success |-> FALSE, error |-> "Invalid task: missing required fields",
          storage |-> ls]
    ELSE [success |-> TRUE, error |-> "",
          storage |-> saveTags(saveSettings(saveTasks(ls, data.tasks), data.settings),
                               data.tags)]

\* storage.importData(jsonString): the result and the storage afterwards
storage_importData(ls, data) ==
    IF ~data.parses
    THEN [success |-> FALSE, error |-> "JSON parse error", storage |-> ls]
    ELSE IF ~Truthy(data.tasksKind) \/ ~IsArray(data.tasksKind)
    THEN [success |-> FALSE, error |-> "Invalid data: missing or invalid tasks array",
          storage |-> ls]
    ELSE IF ~Truthy(data.settingsKind) \/ ~TypeofObject(data.settingsKind)
    THEN [success |-> FALSE, error |-> "Invalid data: missing or invalid settings",
          storage |-> ls]
    ELSE IF ~Truthy(data.tagsKind) \/ ~IsArray(data.tagsKind)
    THEN [success |-> FALSE, error |-> "Invalid data: missing or invalid tags array",
          storage |-> ls]
    ELSE IF \E i \in 1..Len(data.tasks) : TaskLacksField(data.tasks[i])
    THEN [success |-> FALSE, error |-> "Invalid task: missing required fields",
          storage |-> ls]
    ELSE [success |-> TRUE, error |-> "",
          storage |-> saveTags(saveSettings(saveTasks(ls, data.tasks), data.settings),
                               data.tags)]

\* exportData that writes the default settings
exportData_defaultSettings(ls) ==
    Payload(TRUE, "array", loadTasks(ls), "object", defaultSettings, "array", loadTags(ls))

\* storage.exportData(): JSON.stringify of { version, exportDate, tasks:
\* loadTasks(), settings: loadSettings(), tags: loadTags() }, as JSON.parse
\* sees it.  A property whose value is undefined is left out by stringify
\* and reads as undefined after parse, so the values of the model come back
\* as they went in.
exportData(ls) ==
    Payload(TRUE, "array", loadTasks(ls), "object", loadSettings(ls), "array", loadTags(ls))

AppInit ==
    /\ tasks = <<>>
    /\ tags = defaultTags
    /\ settings = defaultSettings
    /\ localStorage = EmptyStorage
    /\ currentPage = "dashboard"
    /\ modalOpen = FALSE
    /\ editingTaskId = 0
    /\ clock = 1
    /\ searchQuery = <<>>
    /\ searchRegex = NullRegex
    /\ caseSensitive = FALSE
    /\ sortBy = "dueDate"
    /\ sortOrder = "asc"
    /\ rendered = <<>>

(***************************************************************************)
(* The field validators, each applied to a raw field value                 *)
(***************************************************************************)
InitValidators ==
    /\ jsEngine \in Engines
    /\ op = "init"
    /\ arg \in FieldInputs
    /\ ret = NoRet
    /\ AppInit

CallValidateTitle ==
    /\ op = "init"
    /\ op' = "validateTitle"
    /\ ret' = validateTitle(arg)
    /\ UNCHANGED <<jsEngine, arg, appVars>>

CallValidateTag ==
    /\ op = "init"
    /\ op' = "validateTag"
    /\ ret' = validateTag(arg)
    /\ UNCHANGED <<jsEngine, arg, appVars>>

CallValidateDate ==
    /\ op = "init"
    /\ op' = "validateDate"
    /\ ret' = validateDate(arg, jsEngine)
    /\ UNCHANGED <<jsEngine, arg, appVars>>

NextValidators == CallValidateTitle \/ CallValidateTag \/ CallValidateDate

SpecValidators == InitValidators /\ [][NextValidators]_vars

(***************************************************************************)
(* C8: every string validateTitle accepts has no leading or trailing       *)
(* whitespace, no two consecutive whitespace characters and no two         *)
(* identical adjacent words (ignoring case).                               *)
(***************************************************************************)
NoOuterWhitespace(s) ==
    s = <<>> \/ (~IsWhitespace(s[1]) /\ ~IsWhitespace(s[Len(s)]))

NoDoubleWhitespace(s) ==
    \A i \in 1..(Len(s) - 1) : ~(IsWhitespace(s[i]) /\ IsWhitespace(s[i + 1]))

C8_AcceptedTitleIsClean ==
    (op = "validateTitle" /\ ret.valid) =>
        /\ NoOuterWhitespace(arg.str)
        /\ NoDoubleWhitespace(arg.str)
        /\ ~patterns_duplicateWord(arg.str)

(***************************************************************************)
(* C9: validateTag accepts s only if s, as given, is at most 50 characters *)
(* of letter runs joined by single spaces or hyphens, with no leading or   *)
(* trailing separator.                                                     *)
(***************************************************************************)
LetterRuns(s) ==
    /\ s # <<>>
    /\ \A i \in 1..Len(s) : IsLetter(s[i]) \/ s[i] \in {" ", "-"}
    /\ IsLetter(s[1]) /\ IsLetter(s[Len(s)])
    /\ \A i \in 1..(Len(s) - 1) : ~(~IsLetter(s[i]) /\ ~IsLetter(s[i + 1]))

C9_AcceptedTagAsGiven ==
    (op = "validateTag" /\ ret.valid) =>
        /\ arg.type = "string"
        /\ Len(arg.str) <= 50
        /\ LetterRuns(arg.str)

(***************************************************************************)
(* C10: validateDate accepts only YYYY-MM-DD strings with month 01-12 that *)
(* denote a real calendar date; 2025-09-29 is accepted, 2025-13-01 fails   *)
(* the pattern, 2025-02-30 passes the pattern and fails the calendar step. *)
(***************************************************************************)
C10_AcceptedDateIsReal ==
    op = "validateDate" =>
        /\ ret.valid => (arg.type = "string" /\ patterns_date(arg.str)
                         /\ IsCalendarDate(arg.str))
        /\ arg = Str(Date0929) => ret.valid
        /\ arg = Str(Date1301) => ret.error = "Date must be in YYYY-MM-DD format"
        /\ arg = Str(Date0230) => (patterns_date(arg.str) /\ ret.error = "Invalid date")

(***************************************************************************)
(* parseQuery applied to a query string                                    *)
(***************************************************************************)
QueryPrefixes ==
    {<<>>, TagPrefix, <<"@", "T", "A", "G", ":">>, <<"@", "T", "a", "g", ":">>,
     <<"@", "t", "a", "g">>, <<" ">> \o TagPrefix,
     DatePrefix, <<"@", "D", "A", "T", "E", ":">>, <<"x">> \o DatePrefix}

QueryBodyChars == {"a", "A", "_", "1", " ", "-", "\n"}

QueryBodies ==
    StringsUpTo(QueryBodyChars, MaxQueryBody)
    \cup {Date0929, Date1301, Date0929 \o <<" ">>, Date0929 \o <<"0">>,
          <<"2", "0", "2", "5", "-", "9", "-", "2", "9">>,
          <<"2", "0", "2", "5", "0", "9", "2", "9", "0", "0">>,
          <<"A", "c", "a", "d", "e", "m", "i", "c">>,
          <<"A", "c", "a", "d", "e", "m", "i", "c", " ">>}

QueryInputs == {Str(p \o b) : p \in QueryPrefixes, b \in QueryBodies}

InitQuery ==
    /\ jsEngine = "V8"
    /\ op = "init"
    /\ arg \in QueryInputs
    /\ ret = NoRet
    /\ AppInit

CallParseQuery ==
    /\ op = "init"
    /\ op' = "parseQuery"
    /\ ret' = parseQuery(arg)
    /\ UNCHANGED <<jsEngine, arg, appVars>>

NextQuery == CallParseQuery

SpecQuery == InitQuery /\ [][NextQuery]_vars

(***************************************************************************)
(* C6: parseQuery gives {tag, w} iff the whole string is @tag: (in any     *)
(* case) followed by a non-empty word w, {date, d} iff the whole string is *)
(* @date: followed by d of the form dddd-dd-dd, and {null, raw string}     *)
(* otherwise; a string with an extra character is never a command.         *)
(***************************************************************************)
IsWord(w) == w # <<>> /\ \A i \in 1..Len(w) : IsWordChar(w[i])

IsDateShape(d) ==
    /\ Len(d) = 10
    /\ \A i \in {1, 2, 3, 4, 6, 7, 9, 10} : IsDigit(d[i])
    /\ d[5] = "-" /\ d[8] = "-"

\* the splits of q into a prefix and the rest
Splits(q) == {<<SubSeq(q, 1, k), SubSeq(q, k + 1, Len(q))>> : k \in 0..Len(q)}

TagCommandOf(q) ==
    {sp[2] : sp \in {x \in Splits(q) : toLowerCase(x[1]) = TagPrefix /\ IsWord(x[2])}}

DateCommandOf(q) ==
    {sp[2] : sp \in {x \in Splits(q) : x[1] = DatePrefix /\ IsDateShape(x[2])}}

C6_ParseQueryShapes ==
    op = "parseQuery" =>
        LET q == arg.str IN
        /\ ~ret.threw
        /\ ret.command \in {"tag", "date", "null"}
        /\ ret.command = "tag" <=> TagCommandOf(q) # {}
        /\ ret.command = "tag" => TagCommandOf(q) = {ret.pattern}
        /\ ret.command = "date" <=> DateCommandOf(q) # {}
        /\ ret.command = "date" => DateCommandOf(q) = {ret.pattern}
        /\ ret.command = "null" => ret.pattern = q

\* "@TAG:" + word is a tag command that keeps the word's case, and the same
\* string with a trailing space is handed on as a pattern
C6_Witness ==
    /\ op = "parseQuery"
    /\ arg.str = <<"@", "T", "A", "G", ":", "A", "_">>
    /\ ret.command = "tag"
    /\ ret.pattern = <<"A", "_">>

C6_WitnessTrailing ==
    /\ op = "parseQuery"
    /\ arg.str = TagPrefix \o <<"A", "c", "a", "d", "e", "m", "i", "c", " ">>
    /\ ret.command = "null"

(***************************************************************************)
(* performSearch and applyCommand applied to a task list and a query       *)
(***************************************************************************)
Task(id, title, dueDate, duration, tag, createdAt, updatedAt) ==
    [id |-> id, title |-> title, dueDate |-> dueDate, duration |-> duration,
     tag |-> tag, createdAt |-> createdAt, updatedAt |-> updatedAt]

SeqsUpTo(S, n) == UNION {[1..k -> S] : k \in 0..n}

Date0930 == MkDate(<<"2", "0", "2", "5">>, <<"0", "9">>, <<"3", "0">>)

SearchTasks ==
    {Task(1, Str(ti), Str(dd), Num(9000), Str(tg), 1, 1) :
        ti \in {<<"a">>, <<"b">>},
        tg \in {<<"a">>, <<"A">>, <<"x">>},
        dd \in {Date0929, Date0930}}

SearchPatternChars == {"a", "x", "|", "^", "["}

SearchQueries ==
    {Str(q) : q \in StringsUpTo(SearchPatternChars, MaxQueryBody)
                    \cup {TagPrefix \o <<"a">>, TagPrefix \o <<"A">>,
                          <<"@", "T", "A", "G", ":", "x">>,
                          TagPrefix \o <<"a", " ">>,
                          DatePrefix \o Date0929, DatePrefix \o Date0930,
                          DatePrefix \o Date1301,
                          <<"0", "9", "-", "2", "9">>, <<"9", "$">>,
                          <<"2", ".", "2">>}}

InitSearch ==
    /\ jsEngine = "V8"
    /\ op = "init"
    /\ arg \in [tasks : SeqsUpTo(SearchTasks, MaxTasks), query : SearchQueries,
                caseSensitive : BOOLEAN]
    /\ ret = NoRet
    /\ AppInit

CallPerformSearch ==
    /\ op = "init"
    /\ op' = "performSearch"
    /\ ret' = performSearch(arg.tasks, arg.query, arg.caseSensitive)
    /\ UNCHANGED <<jsEngine, arg, appVars>>

\* applyCommand called with a command name and the query text as its value
CallApplyCommand ==
    /\ op = "init"
    /\ \E command \in {"tag", "date", "title", "null"} :
        /\ op' = "applyCommand"
        /\ ret' = [command |-> command,
                   tasks |-> applyCommand(arg.tasks, command, arg.query.str)]
    /\ UNCHANGED <<jsEngine, arg, appVars>>

NextSearch == CallPerformSearch \/ CallApplyCommand

SpecSearch == InitSearch /\ [][NextSearch]_vars

\* the pattern matches somewhere in s (a regex freshly compiled, tested once)
PatternMatches(pattern, ignoreCase, s) ==
    \E p \in 0..Len(s) :
        MatchAt(RegExpObject(pattern, IF ignoreCase THEN "gi" ELSE "g"), s, p) # -1

IsFreeRegexQuery(query) ==
    /\ query.str # <<>>
    /\ parseQuery(query).command = "null"

(***************************************************************************)
(* C1: for a free-regex query that compiles, performSearch returns exactly *)
(* the tasks in which the pattern matches the title, the tag or the        *)
(* dueDate taken by itself, in input order, whatever tasks precede them.   *)
(***************************************************************************)
C1_FreeRegexReturnsEveryMatch ==
    (/\ op = "performSearch"
     /\ IsFreeRegexQuery(arg.query)
     /\ ~RegExpSyntaxError(arg.query.str)) =>
        /\ ret.error = ""
        /\ ret.tasks =
            SelectSeq(arg.tasks,
                      LAMBDA t : \E f \in {"title", "tag", "dueDate"} :
                          PatternMatches(arg.query.str, ~arg.caseSensitive, t[f].str))

(***************************************************************************)
(* C5: for a non-empty query that is no command and whose pattern does not *)
(* compile, performSearch returns no task and a non-empty error message,   *)
(* and does not throw.                                                     *)
(***************************************************************************)
C5_BadPatternGivesError ==
    (/\ op = "performSearch"
     /\ IsFreeRegexQuery(arg.query)
     /\ RegExpSyntaxError(arg.query.str)) =>
        /\ ~ret.threw
        /\ ret.tasks = <<>>
        /\ ret.error # ""

C5_Witness ==
    /\ op = "performSearch"
    /\ arg.query = Str(<<"a", "[">>)
    /\ Len(arg.tasks) = MaxTasks
    /\ arg.tasks[1].title = Str(<<"a">>)
    /\ ret.tasks = <<>>
    /\ ret.error # ""

(***************************************************************************)
(* C7: for a structured command, performSearch returns, with an empty      *)
(* error and no regex compiled, exactly the input tasks whose tag (or      *)
(* dueDate) equals the captured value, case-sensitively, in input order;   *)
(* applyCommand with any other command name returns the list unfiltered.   *)
(***************************************************************************)
C7_CommandFiltersByEquality ==
    /\ (op = "performSearch" /\ parseQuery(arg.query).command = "tag") =>
          /\ ret.error = "" /\ ~ret.threw /\ ret.regex = NullRegex
          /\ ret.tasks = SelectSeq(arg.tasks,
                LAMBDA t : t.tag.str = SubSeq(arg.query.str, 6, Len(arg.query.str)))
    /\ (op = "performSearch" /\ parseQuery(arg.query).command = "date") =>
          /\ ret.error = "" /\ ~ret.threw /\ ret.regex = NullRegex
          /\ ret.tasks = SelectSeq(arg.tasks,
                LAMBDA t : t.dueDate.str = SubSeq(arg.query.str, 7, Len(arg.query.str)))
    /\ (op = "applyCommand" /\ ret.command \notin {"tag", "date"}) =>
          ret.tasks = arg.tasks

\* @tag:a keeps the task tagged "a" and drops the one tagged "A"
C7_Witness ==
    /\ op = "performSearch"
    /\ arg.query = Str(TagPrefix \o <<"a">>)
    /\ Len(arg.tasks) = 2
    /\ arg.tasks[1].tag = Str(<<"A">>)
    /\ arg.tasks[2].tag = Str(<<"a">>)
    /\ ret.tasks = <<arg.tasks[2]>>

(***************************************************************************)
(* highlightMatches applied to a text and a compiled pattern               *)
(***************************************************************************)
HighlightTextChars == {"a", "b", "<", "&"}
HighlightPatternChars == {"a", "<", "|", "^"}

InitHighlight ==
    /\ jsEngine = "V8"
    /\ op = "init"
    /\ arg \in [text : StringsUpTo(HighlightTextChars, MaxLen),
                pattern : StringsUpTo(HighlightPatternChars, MaxQueryBody) \ {<<>>},
                flags : {"i", "g", "gi"}]
    /\ ret = NoRet
    /\ AppInit

CallHighlightMatches ==
    /\ op = "init"
    /\ op' = "highlightMatches"
    /\ ret' = highlightMatches(arg.text, compileRegex(Str(arg.pattern), arg.flags).regex)
    /\ UNCHANGED <<jsEngine, arg, appVars>>

\* search.highlightText, the entry point of the renderer
CallHighlightText ==
    /\ op = "init"
    /\ op' = "highlightText"
    /\ ret' = highlightText(Str(arg.text), compileRegex(Str(arg.pattern), arg.flags).regex)
    /\ UNCHANGED <<jsEngine, arg, appVars>>

NextHighlight == CallHighlightMatches \/ CallHighlightText

SpecHighlight == InitHighlight /\ [][NextHighlight]_vars

(***************************************************************************)
(* C3: the string highlight returns has every HTML-special character of    *)
(* the text neutralized, inside and outside the matched spans, so the      *)
(* renderer is handed no unescaped markup taken from task data.            *)
(***************************************************************************)
NoRawMarkup(html) == \A i \in 1..Len(html) : html[i] \notin HtmlSpecial

C3_HighlightEscapesEverything ==
    op \in {"highlightMatches", "highlightText"} => NoRawMarkup(ret)

(***************************************************************************)
(* utils.js: sortBy                                                        *)
(***************************************************************************)
\* the characters of the model in UTF-16 code unit order
CodeOrder ==
    <<"\t", "\n", " ", "&", "-", ".", "/">> \o DigitChars \o <<":", "<", ">", "@">>
    \o UpperChars \o <<"[", "^", "_">> \o LowerChars \o <<"|">>

CodeOf ==
    [c \in {CodeOrder[i] : i \in 1..Len(CodeOrder)} |->
        CHOOSE i \in 1..Len(CodeOrder) : CodeOrder[i] = c]

CharCode(c) == CodeOf[c]

\* a < b on two strings
StringLess(a, b) ==
    \E k \in 1..Len(b) :
        /\ \A i \in 1..(k - 1) : i <= Len(a) /\ a[i] = b[i]
        /\ \/ k = Len(a) + 1
           \/ k <= Len(a) /\ CharCode(a[k]) < CharCode(b[k])

\* digits, optionally followed by a point and one or two digits
IsDecimalLiteral(s) ==
    \E d \in 1..Len(s) :
        /\ AllDigits(SubSeq(s, 1, d))
        /\ \/ d = Len(s)
           \/ Len(s) - d \in {2, 3} /\ s[d + 1] = "." /\ AllDigits(SubSeq(s, d + 2, Len(s)))

\* a < b after the code's toLowerCase step: two strings compare by code
\* units; a number and a string compare as numbers, and a string that is no
\* number is NaN, which is neither less nor greater
ToNumberIsNaN(s) == trim(s) # <<>> /\ ~IsDecimalLiteral(trim(s))
ToNumber(s) == IF trim(s) = <<>> THEN 0 ELSE parseFloat(s)

ValueLess(a, b) ==
    IF a.type = "string" /\ b.type = "string" THEN StringLess(a.str, b.str)
    ELSE IF a.type = "string"
         THEN ~ToNumberIsNaN(a.str) /\ ToNumber(a.str) < b.num
         ELSE IF b.type = "string"
              THEN ~ToNumberIsNaN(b.str) /\ a.num < ToNumber(b.str)
              ELSE a.num < b.num

Thrown == 2

\* aVal > bVal ? 1 : aVal < bVal ? -1 : 0
ThreeWay(greater, less) == IF greater THEN 1 ELSE IF less THEN -1 ELSE 0

\* the two branches of the comparator: descending swaps the signs
Directed(c, order) == IF order = "asc" THEN c ELSE 0 - c

\* the comparator after the toLowerCase step
compareValues(aVal, bVal, order) ==
    Directed(ThreeWay(ValueLess(bVal, aVal), ValueLess(aVal, bVal)), order)

\* the comparator of sortBy: -1, 0, 1, or Thrown when bVal.toLowerCase is
\* not a function (aVal a string, bVal not)
compareFn(a, b, prop, order) ==
    IF a[prop].type = "string" /\ b[prop].type # "string" THEN Thrown
    ELSE IF a[prop].type = "string"
    THEN compareValues(Str(toLowerCase(a[prop].str)), Str(toLowerCase(b[prop].str)), order)
    ELSE compareValues(a[prop], b[prop], order)

\* Array.prototype.sort is a stable insertion sort on the short arrays of
\* the model.  Which element the engine hands to the comparator first is
\* its own choice: V8 calls comparefn(new, placed), SpiderMonkey
\* comparefn(placed, new).  Whether the new element x goes before the
\* placed element e: -1 it does, 1 it does not, Thrown.
GoesBefore(c, engine) ==
    IF c = Thrown THEN Thrown
    ELSE IF engine = "V8" THEN (IF c < 0 THEN -1 ELSE 1)
    ELSE (IF c > 0 THEN -1 ELSE 1)

Order(x, e, prop, order, engine) ==
    GoesBefore(compareFn(IF engine = "V8" THEN x ELSE e, IF engine = "V8" THEN e ELSE x,
                         prop, order),
               engine)

\* the position x takes among sorted[1..i] (scanning down from i), or -1
RECURSIVE InsertPosition(_, _, _, _, _, _)
Placed(c, sorted, x, i, prop, order, engine) ==
    IF c = Thrown THEN -1
    ELSE IF c < 0 THEN InsertPosition(sorted, x, i - 1, prop, order, engine)
    ELSE i

InsertPosition(sorted, x, i, prop, order, engine) ==
    IF i = 0 THEN 0
    ELSE Placed(Order(x, sorted[i], prop, order, engine), sorted, x, i, prop, order,
                engine)

\* x put at position pos of the sorted prefix, -1 standing for the exception
Inserted(sorted, x, pos) ==
    IF pos = -1 THEN [threw |-> TRUE, tasks |-> <<>>]
    ELSE [threw |-> FALSE,
          tasks |-> SubSeq(sorted, 1, pos) \o <<x>> \o SubSeq(sorted, pos + 1, Len(sorted))]

InsertInto(before, x, prop, order, engine) ==
    IF before.threw THEN before
    ELSE Inserted(before.tasks, x,
                  InsertPosition(before.tasks, x, Len(before.tasks), prop, order, engine))

RECURSIVE InsertionSort(_, _, _, _, _)
InsertionSort(arr, n, prop, order, engine) ==
    IF n = 0 THEN [threw |-> FALSE, tasks |-> <<>>]
    ELSE InsertInto(InsertionSort(arr, n - 1, prop, order, engine), arr[n], prop, order,
                    engine)

\* utils.sortBy(arr, prop, order): [threw, tasks]
utils_sortBy(arr, prop, order, engine) == InsertionSort(arr, Len(arr), prop, order, engine)

(***************************************************************************)
(* state.js                                                                *)
(***************************************************************************)
TaskIds(ts) == {ts[i].id : i \in 1..Len(ts)}

\* utils.generateId: a timestamp and nine random digits, taken here to be
\* an id that no task of the list carries (the least one)
generateId(ts) == CHOOSE n \in 1..(Len(ts) + 1) :
                      n \notin TaskIds(ts) /\ \A k \in 1..(n - 1) : k \in TaskIds(ts)

\* addTask(task): the list afterwards
addTask(ts, task, now) ==
    Append(ts, [task EXCEPT
                   !.id = IF task.id = 0 THEN generateId(ts) ELSE task.id,
                   !.createdAt = IF task.createdAt = 0 THEN now ELSE task.createdAt,
                   !.updatedAt = IF task.updatedAt = 0 THEN now ELSE task.updatedAt])

\* tasks.findIndex(task => task.id === id), 0 for -1
findIndex(ts, id) ==
    IF id \in TaskIds(ts)
    THEN CHOOSE i \in 1..Len(ts) : ts[i].id = id /\ \A j \in 1..(i - 1) : ts[j].id # id
    ELSE 0

\* updateTask that leaves updatedAt as it is
updateTask_keepsUpdatedAt(ts, id, updates, now) ==
    LET i == findIndex(ts, id) IN
    IF i = 0 THEN [ok |-> FALSE, tasks |-> ts]
    ELSE [ok |-> TRUE, tasks |-> [ts EXCEPT ![i] = Merge(ts[i], updates)]]

\* updateTask(id, updates): { ...task, ...updates, updatedAt: now }
updateTask(ts, id, updates, now) ==
    LET i == findIndex(ts, id) IN
    IF i = 0 THEN [ok |-> FALSE, tasks |-> ts]
    ELSE [ok |-> TRUE,
          tasks |-> [ts EXCEPT ![i] = [Merge(ts[i], updates) EXCEPT !.updatedAt = now]]]

\* deleteTask(id)
deleteTask(ts, id) ==
    LET i == findIndex(ts, id) IN
    IF i = 0 THEN [ok |-> FALSE, tasks |-> ts]
    ELSE [ok |-> TRUE, tasks |-> SubSeq(ts, 1, i - 1) \o SubSeq(ts, i + 1, Len(ts))]

\* `${v}`
TemplateString(v) ==
    IF v.type = "string" THEN v.str
    ELSE IF v.type = "number" THEN NumberToString(v.num)
    ELSE <<"u", "n", "d", "e", "f", "i", "n", "e", "d">>

\* `${task.title} ${task.tag} ${task.dueDate}`
searchText(t) ==
    TemplateString(t.title) \o <<" ">> \o TemplateString(t.tag) \o <<" ">>
    \o TemplateString(t.dueDate)

\* filtered.filter(task => appState.searchRegex.test(searchText)), the one
\* regex object carrying its lastIndex from task to task
RECURSIVE filterBySearchText(_, _)
Kept(t, r, rest) ==
    [tasks |-> (IF r.found THEN <<t>> ELSE <<>>) \o rest.tasks, regex |-> rest.regex]

Tested(t, r, others) == Kept(t, r, filterBySearchText(others, r.regex))

filterBySearchText(ts, regex) ==
    IF ts = <<>> THEN [tasks |-> <<>>, regex |-> regex]
    ELSE Tested(Head(ts), RegExpTest(regex, searchText(Head(ts))), Tail(ts))

\* filtered = utils.sortBy(filtered, appState.sortBy, appState.sortOrder)
sortFiltered(filtered, prop, order, engine) ==
    utils_sortBy(filtered.tasks, prop, order, engine) @@ [regex |-> filtered.regex]

\* getFilteredTasks(): [threw, tasks, regex], regex being appState.searchRegex
\* after the call
getFilteredTasks(ts, regex, prop, order, engine) ==
    sortFiltered(IF regex.isNull THEN [tasks |-> ts, regex |-> regex]
                 ELSE filterBySearchText(ts, regex),
                 prop, order, engine)

\* setSearchQuery(query, caseSensitive): the new appState.searchRegex
setSearchQuery(query, cs) ==
    IF query # <<>> THEN compileRegex(Str(query), IF cs THEN "g" ELSE "gi").regex
    ELSE NullRegex

\* setSortOptions that never flips the direction
setSortOptions_alwaysAsc(field, curBy, curOrder) ==
    [sortBy |-> field, sortOrder |-> "asc"]

\* setSortOptions(field) with order left null
setSortOptions(field, curBy, curOrder) ==
    IF curBy = field
    THEN [sortBy |-> curBy, sortOrder |-> IF curOrder = "asc" THEN "desc" ELSE "asc"]
    ELSE [sortBy |-> field, sortOrder |-> "asc"]

(***************************************************************************)
(* ui.js: renderTasksTable                                                 *)
(***************************************************************************)
\* one table row: the id on its buttons and the HTML of the title and tag cells
Row(t, regex) ==
    [id |-> t.id,
     title |-> IF ~regex.isNull THEN highlightText(t.title, regex)
               ELSE escapeHtml(TemplateString(t.title)),
     tag |-> IF ~regex.isNull THEN highlightText(t.tag, regex)
             ELSE escapeHtml(TemplateString(t.tag))]

\* renderTasks(tasks): the rows, and the regex after the replace calls
renderTasks(ts, regex) ==
    [rendered |-> [i \in 1..Len(ts) |-> Row(ts[i], regex)],
     regex |-> IF ts = <<>> \/ regex.isNull THEN regex ELSE AfterReplace(regex)]

(***************************************************************************)
(* main.js: the event handlers of the page                                 *)
(***************************************************************************)
Pages == {"dashboard", "tasks", "settings"}
SortFields == {"title", "dueDate", "duration"}

\* what the user has put into the task form when submitting it
Form(title, dueDate, duration, tag) ==
    [title |-> Str(title), dueDate |-> Str(dueDate), duration |-> Str(duration),
     tag |-> Str(tag)]

FormA == Form(<<"a">>, Date0929, <<"9", "0">>, Work)
FormB == Form(<<"B">>, Date0930, <<"1", ".", "5">>, Academic)
FormEmpty == Form(<<>>, <<>>, <<>>, <<>>)
Forms == {FormA, FormB, FormEmpty}

\* the files the user imports
ImportedTask == Task(1, Str(<<"c">>), Str(Date0929), Str(<<"1", "2", "0">>), Str(Work), 1, 1)
LooseTask == Task(1, Str(<<"d">>), Str(<<"x">>), Num(3000), Str(<<"x", "1">>), 1, 1)

ExportedFile ==
    Payload(TRUE, "array", <<ImportedTask>>, "object", defaultSettings, "array", defaultTags)
HandWrittenFile ==
    Payload(TRUE, "array", <<LooseTask, ImportedTask>>, "object", [unit |-> "hours"],
            "array", <<Academic, Work>>)
NotJsonFile == Payload(FALSE, "absent", <<>>, "absent", <<>>, "absent", <<>>)
NoTasksFile == Payload(TRUE, "absent", <<>>, "object", defaultSettings, "array", defaultTags)
ImportFiles == {ExportedFile, HandWrittenFile, NotJsonFile, NoTasksFile}

\* what the user types into the search box
TagCommand == TagPrefix \o Work
DateCommand == DatePrefix \o Date0929
SearchBox(query, cs) == [query |-> query, caseSensitive |-> cs]
SearchInputs ==
    {SearchBox(<<>>, FALSE), SearchBox(<<"a">>, FALSE),
     SearchBox(TagCommand, FALSE), SearchBox(DateCommand, TRUE)}

\* ui.renderTasks(tasks) on what getFilteredTasks returned; when it threw,
\* the handler has ended and the table is the one before
renderFiltered(f, table) ==
    IF f.threw
    THEN [threw |-> TRUE, tasks |-> <<>>, rendered |-> table, regex |-> f.regex]
    ELSE [threw |-> FALSE, tasks |-> f.tasks] @@ renderTasks(f.tasks, f.regex)

\* const tasks = state.getFilteredTasks(); ui.renderTasks(tasks);
RefreshTasks(ts, regex, prop, order, engine, table) ==
    renderFiltered(getFilteredTasks(ts, regex, prop, order, engine), table)

\* what the refresh leaves in the page
Refreshed(r) ==
    /\ ret' = [threw |-> r.threw, tasks |-> r.tasks]
    /\ rendered' = r.rendered
    /\ searchRegex' = r.regex

Init ==
    /\ jsEngine \in Engines
    /\ op = "init"
    /\ arg = NoArg
    /\ ret = NoRet
    /\ AppInit

\* DOMContentLoaded: state.init(), ui.showPage('dashboard') on a fresh page
PageLoad ==
    /\ op' = "load"
    /\ arg' = NoArg
    /\ ret' = NoRet
    /\ tasks' = loadTasks(localStorage)
    /\ settings' = loadSettings(localStorage)
    /\ tags' = loadTags(localStorage)
    /\ currentPage' = "dashboard"
    /\ modalOpen' = FALSE
    /\ editingTaskId' = 0
    /\ searchQuery' = <<>>
    /\ searchRegex' = NullRegex
    /\ caseSensitive' = FALSE
    /\ sortBy' = "dueDate"
    /\ sortOrder' = "asc"
    /\ rendered' = <<>>
    /\ UNCHANGED <<jsEngine, localStorage, clock>>

\* The open task dialog covers the page: the links, buttons and inputs of
\* the page are reached again once it is closed.

\* click on a navigation link: ui.showPage(page)
ShowPage(page) ==
    /\ ~modalOpen
    /\ op' = "showPage"
    /\ arg' = [page |-> page]
    /\ currentPage' = page
    /\ IF page = "tasks"
       THEN Refreshed(RefreshTasks(tasks, searchRegex, sortBy, sortOrder, jsEngine,
                                   rendered))
       ELSE ret' = NoRet /\ UNCHANGED <<rendered, searchRegex>>
    /\ UNCHANGED <<jsEngine, tasks, tags, settings, localStorage, modalOpen,
                   editingTaskId, clock, searchQuery, caseSensitive, sortBy, sortOrder>>

\* click on "Add task": ui.showTaskModal()
AddTaskClick ==
    /\ ~modalOpen
    /\ currentPage = "tasks"
    /\ op' = "addTaskClick"
    /\ arg' = NoArg
    /\ ret' = NoRet
    /\ modalOpen' = TRUE
    /\ editingTaskId' = 0
    /\ UNCHANGED <<jsEngine, tasks, tags, settings, localStorage, currentPage, clock,
                   searchQuery, searchRegex, caseSensitive, sortBy, sortOrder, rendered>>

\* click on the Edit button of a row of the table
EditClick(i) ==
    /\ ~modalOpen
    /\ currentPage = "tasks"
    /\ i \in 1..Len(rendered)
    /\ op' = "editClick"
    /\ arg' = [id |-> rendered[i].id]
    /\ ret' = NoRet
    /\ IF findIndex(tasks, rendered[i].id) # 0
       THEN modalOpen' = TRUE /\ editingTaskId' = rendered[i].id
       ELSE UNCHANGED <<modalOpen, editingTaskId>>
    /\ UNCHANGED <<jsEngine, tasks, tags, settings, localStorage, currentPage, clock,
                   searchQuery, searchRegex, caseSensitive, sortBy, sortOrder, rendered>>

\* close button, cancel button or Escape: ui.hideTaskModal()
HideTaskModal ==
    /\ modalOpen
    /\ op' = "hideTaskModal"
    /\ arg' = NoArg
    /\ ret' = NoRet
    /\ modalOpen' = FALSE
    /\ editingTaskId' = 0
    /\ UNCHANGED <<jsEngine, tasks, tags, settings, localStorage, currentPage, clock,
                   searchQuery, searchRegex, caseSensitive, sortBy, sortOrder, rendered>>

\* the task list after the submit handler's updateTask or addTask
SubmittedTasks(fields) ==
    IF editingTaskId # 0 THEN updateTask(tasks, editingTaskId, fields, clock).tasks
    ELSE addTask(tasks, Task(0, fields.title, fields.dueDate, fields.duration,
                             fields.tag, 0, 0), clock)

\* the submit handler after a successful validation, ts being the new list.
\* new Date() reads the clock, which has moved on at the next read; the
\* reads of one addTask or updateTask fall into the same instant.
StoreAndRefresh(ts) ==
    /\ tasks' = ts
    /\ IF editingTaskId = 0 \/ findIndex(tasks, editingTaskId) # 0
       THEN localStorage' = saveTasks(localStorage, ts) /\ clock' = clock + 1
       ELSE UNCHANGED <<localStorage, clock>>
    /\ modalOpen' = FALSE
    /\ editingTaskId' = 0
    /\ Refreshed(RefreshTasks(ts, searchRegex, sortBy, sortOrder, jsEngine, rendered))

\* the submit handler once validateTask has returned
Submit(form, validation) ==
    IF ~validation.valid
    THEN /\ ret' = [valid |-> FALSE, failed |-> DOMAIN validation.errors]
         /\ UNCHANGED appVars
    ELSE /\ clock < MaxClock
         /\ editingTaskId = 0 => Len(tasks) < MaxTasks
         /\ StoreAndRefresh(SubmittedTasks(
                [title |-> form.title, dueDate |-> form.dueDate,
                 duration |-> Num(parseFloat(form.duration.str)), tag |-> form.tag]))
         /\ UNCHANGED <<tags, settings, currentPage, searchQuery, caseSensitive,
                        sortBy, sortOrder>>

\* submit of the task form
FormSubmit(form) ==
    /\ modalOpen
    /\ op' = "formSubmit"
    /\ arg' = form
    /\ Submit(form, validateTask(form, jsEngine))
    /\ UNCHANGED jsEngine

\* the delete handler once deleteTask has returned d
Deleted(d) ==
    /\ tasks' = d.tasks
    /\ localStorage' = IF d.ok THEN saveTasks(localStorage, d.tasks) ELSE localStorage
    /\ Refreshed(RefreshTasks(d.tasks, searchRegex, sortBy, sortOrder, jsEngine, rendered))

\* click on the Delete button of a row of the table, confirmed
DeleteClick(i) ==
    /\ ~modalOpen
    /\ currentPage = "tasks"
    /\ i \in 1..Len(rendered)
    /\ op' = "deleteClick"
    /\ arg' = [id |-> rendered[i].id]
    /\ Deleted(deleteTask(tasks, rendered[i].id))
    /\ UNCHANGED <<jsEngine, tags, settings, currentPage, modalOpen, editingTaskId,
                   clock, searchQuery, caseSensitive, sortBy, sortOrder>>

\* input in the search box, or a change of the case toggle
SearchInput(query, cs) ==
    /\ ~modalOpen
    /\ currentPage = "tasks"
    /\ op' = "searchInput"
    /\ arg' = [query |-> query, caseSensitive |-> cs]
    /\ searchQuery' = query
    /\ caseSensitive' = cs
    /\ Refreshed(RefreshTasks(tasks, setSearchQuery(query, cs), sortBy, sortOrder,
                              jsEngine, rendered))
    /\ UNCHANGED <<jsEngine, tasks, tags, settings, localStorage, currentPage,
                   modalOpen, editingTaskId, clock, sortBy, sortOrder>>

\* the sort handler once setSortOptions has set the options so
Sorted(so) ==
    /\ sortBy' = so.sortBy
    /\ sortOrder' = so.sortOrder
    /\ Refreshed(RefreshTasks(tasks, searchRegex, so.sortBy, so.sortOrder, jsEngine,
                              rendered))

\* click on a sort button
SortClick(field) ==
    /\ ~modalOpen
    /\ currentPage = "tasks"
    /\ op' = "sortClick"
    /\ arg' = [field |-> field]
    /\ Sorted(setSortOptions(field, sortBy, sortOrder))
    /\ UNCHANGED <<jsEngine, tasks, tags, settings, localStorage, currentPage,
                   modalOpen, editingTaskId, clock, searchQuery, caseSensitive>>

\* a file chosen in the import dialog has been read: state.importData(text)
ImportFile(file) ==
    /\ ~modalOpen
    /\ currentPage = "settings"
    /\ LET result == storage_importData(localStorage, file) IN
       /\ op' = "importFile"
       /\ arg' = file
       /\ ret' = [success |-> result.success, error |-> result.error]
       /\ localStorage' = result.storage
       /\ IF result.success
          THEN /\ tasks' = loadTasks(result.storage)
               /\ settings' = loadSettings(result.storage)
               /\ tags' = loadTags(result.storage)
               /\ currentPage' = "dashboard"
          ELSE UNCHANGED <<tasks, settings, tags, currentPage>>
    /\ UNCHANGED <<jsEngine, modalOpen, editingTaskId, clock, searchQuery, searchRegex,
                   caseSensitive, sortBy, sortOrder, rendered>>

\* click on "Export": state.exportData() and the download of the file
ExportClick ==
    /\ ~modalOpen
    /\ currentPage = "settings"
    /\ op' = "exportClick"
    /\ arg' = NoArg
    /\ ret' = [file |-> exportData(localStorage)]
    /\ UNCHANGED <<jsEngine, appVars>>

\* the file just exported is chosen in the import dialog
ImportExported ==
    /\ op = "exportClick"
    /\ ImportFile(ret.file)

\* click on "Clear all data", confirmed: state.clearAllData()
ClearClick ==
    /\ ~modalOpen
    /\ currentPage = "settings"
    /\ op' = "clearClick"
    /\ arg' = NoArg
    /\ ret' = NoRet
    /\ localStorage' = clearAll(localStorage)
    /\ tasks' = <<>>
    /\ tags' = defaultTags
    /\ settings' = defaultSettings
    /\ currentPage' = "dashboard"
    /\ UNCHANGED <<jsEngine, modalOpen, editingTaskId, clock, searchQuery, searchRegex,
                   caseSensitive, sortBy, sortOrder, rendered>>

Next ==
    \/ PageLoad
    \/ \E page \in Pages : ShowPage(page)
    \/ AddTaskClick
    \/ \E i \in 1..MaxTasks : EditClick(i)
    \/ HideTaskModal
    \/ \E form \in Forms : FormSubmit(form)
    \/ \E i \in 1..MaxTasks : DeleteClick(i)
    \/ \E in \in SearchInputs : SearchInput(in.query, in.caseSensitive)
    \/ \E field \in SortFields : SortClick(field)
    \/ \E file \in ImportFiles : ImportFile(file)
    \/ ExportClick
    \/ ImportExported
    \/ ClearClick

Spec == Init /\ [][Next]_vars

\* C2: every task of the persisted collection passes the four field
\* validators, that is validateTask on the stored record returns valid
C2_PersistedTasksAreValid ==
    \A i \in 1..Len(loadTasks(localStorage)) :
        validateTask(loadTasks(localStorage)[i], jsEngine).valid

\* the tasks of ts that carry the value v in the field, in any order
TasksWith(ts, field, v) == {i \in 1..Len(ts) : ts[i][field] = Str(v)}

SameTasks(list, ts, idx) ==
    /\ Len(list) = Cardinality(idx)
    /\ \A i \in idx : \E k \in 1..Len(list) : list[k] = ts[i]

\* C4: when the search text is the command @tag:X (or @date:D), the list
\* that setSearchQuery followed by getFilteredTasks produces holds exactly
\* the tasks whose tag equals X (or whose dueDate equals D)
C4_CommandSearchFiltersByField ==
    (op = "searchInput" /\ ~ret.threw) =>
        LET q == parseQuery(Str(arg.query)) IN
        /\ q.command = "tag" =>
               SameTasks(ret.tasks, tasks, TasksWith(tasks, "tag", q.pattern))
        /\ q.command = "date" =>
               SameTasks(ret.tasks, tasks, TasksWith(tasks, "dueDate", q.pattern))

(***************************************************************************)
(* validateDuration applied to a raw field value                           *)
(***************************************************************************)
DurationChars == {"0", "1", "9", ".", " ", "-"}

Duration10000 == <<"1", "0", "0", "0", "0">>

DurationStrings ==
    {Duration10000, Duration10000 \o <<".", "0", "1">>, Duration10000 \o <<".", "0", "0">>,
     <<"1", "0", "0", "0", "1">>, <<"9", "9", "9", "9", ".", "9", "9">>,
     <<"1", "2", ".", "3", "4", "5">>, <<" ">> \o Duration10000 \o <<" ">>}

DurationInputs ==
    {Str(s) : s \in StringsUpTo(DurationChars, MaxLen) \cup DurationStrings}
    \cup {Undefined, Num(9000)}

InitDuration ==
    /\ jsEngine = "V8"
    /\ op = "init"
    /\ arg \in DurationInputs
    /\ ret = NoRet
    /\ AppInit

CallValidateDuration ==
    /\ op = "init"
    /\ op' = "validateDuration"
    /\ ret' = validateDuration(arg)
    /\ UNCHANGED <<jsEngine, arg, appVars>>

NextDuration == CallValidateDuration

SpecDuration == InitDuration /\ [][NextDuration]_vars

\* the digits that follow the first decimal point of s, counted
RECURSIVE DigitRun(_, _)
DigitRun(s, i) == IF i <= Len(s) /\ IsDigit(s[i]) THEN 1 + DigitRun(s, i + 1) ELSE 0

DigitsAfterPoint(s) ==
    IF \A i \in 1..Len(s) : s[i] # "." THEN 0
    ELSE DigitRun(s, 1 + CHOOSE i \in 1..Len(s) :
                             s[i] = "." /\ \A j \in 1..(i - 1) : s[j] # ".")

\* C11: every string validateDuration accepts parses to a number in
\* [0, 10000] and has at most two digits after a decimal point; "0" and
\* "10000" are accepted, "10000.01", "090", "-10" and "12.345" are rejected
C11_AcceptedDurationInRange ==
    op = "validateDuration" =>
        /\ ret.valid =>
               /\ arg.type = "string"
               /\ parseFloat(arg.str) >= 0
               /\ parseFloat(arg.str) <= 10000 * 100
               /\ DigitsAfterPoint(arg.str) <= 2
        /\ arg \in {Str(<<"0">>), Str(Duration10000)} => ret.valid
        /\ arg \in {Str(Duration10000 \o <<".", "0", "1">>), Str(<<"0", "9", "0">>),
                    Str(<<"-", "1", "0">>), Str(<<"1", "2", ".", "3", "4", "5">>)}
               => ~ret.valid

\* the upper end of the range has been accepted
C11_Witness ==
    /\ op = "validateDuration"
    /\ arg = Str(Duration10000)
    /\ ret.valid

(***************************************************************************)
(* validateTask applied to a task record                                   *)
(***************************************************************************)
TaskInputs ==
    [title : {Str(<<"a">>), Str(<<"a", " ", "a">>), Str(<<>>), Undefined},
     dueDate : {Str(Date0929), Str(Date0230), Str(<<"x">>), Undefined},
     duration : {Str(<<"9", "0">>), Str(<<"-", "1">>), Num(9000), Undefined},
     tag : {Str(Work), Str(<<"x", "1">>), Undefined}]

InitTask ==
    /\ jsEngine \in Engines
    /\ op = "init"
    /\ arg \in TaskInputs
    /\ ret = NoRet
    /\ AppInit

CallValidateTask ==
    /\ op = "init"
    /\ op' = "validateTask"
    /\ ret' = validateTask(arg, jsEngine)
    /\ UNCHANGED <<jsEngine, arg, appVars>>

NextTask == CallValidateTask

SpecTask == InitTask /\ [][NextTask]_vars

\* the result of the field validator of field f on the task
FieldResult(task, f, engine) ==
    IF f = "title" THEN validateTitle(task.title)
    ELSE IF f = "dueDate" THEN validateDate(task.dueDate, engine)
    ELSE IF f = "duration" THEN validateDuration(task.duration)
    ELSE validateTag(task.tag)

\* C12: validateTask returns valid exactly when the four field validators
\* pass, and errors has a key for exactly the failing fields, each carrying
\* the message of its field validator
C12_TaskResultAggregatesFields ==
    op = "validateTask" =>
        /\ ret.valid <=> \A f \in {"title", "dueDate", "duration", "tag"} :
                             FieldResult(arg, f, jsEngine).valid
        /\ DOMAIN ret.errors = {f \in {"title", "dueDate", "duration", "tag"} :
                                   ~FieldResult(arg, f, jsEngine).valid}
        /\ \A f \in DOMAIN ret.errors : ret.errors[f] = FieldResult(arg, f, jsEngine).error

\* a record whose tag alone fails
C12_Witness ==
    /\ op = "validateTask"
    /\ ~ret.valid
    /\ DOMAIN ret.errors = {"tag"}
    /\ ret.errors["tag"] = "Tag can only contain letters, spaces, and hyphens"

(***************************************************************************)
(* compileRegex applied to a pattern and a flag string                     *)
(***************************************************************************)
CompilePatternChars == {"a", "|", "^", "["}

CompileInputs ==
    [pattern : {Str(q) : q \in StringsUpTo(CompilePatternChars, MaxQueryBody)}
               \cup {Undefined, Num(9000)},
     flags : ValidFlags \cup {"x", "gg"}]

InitCompile ==
    /\ jsEngine = "V8"
    /\ op = "init"
    /\ arg \in CompileInputs
    /\ ret = NoRet
    /\ AppInit

CallCompileRegex ==
    /\ op = "init"
    /\ op' = "compileRegex"
    /\ ret' = compileRegex(arg.pattern, arg.flags)
    /\ UNCHANGED <<jsEngine, arg, appVars>>

NextCompile == CallCompileRegex

SpecCompile == InitCompile /\ [][NextCompile]_vars

NoPattern(pattern) == Falsy(pattern) \/ pattern.type # "string"

\* C13: compileRegex returns a null matcher with an empty error for an empty
\* or non-string pattern, a null matcher with a non-empty error for a
\* pattern or flag string the engine rejects, and a matcher with an empty
\* error otherwise; null with an empty error always means "no pattern"
C13_CompileResultShapes ==
    op = "compileRegex" =>
        /\ NoPattern(arg.pattern) => ret.regex.isNull /\ ret.error = ""
        /\ (~NoPattern(arg.pattern)
            /\ (RegExpSyntaxError(arg.pattern.str) \/ arg.flags \notin ValidFlags))
               => ret.regex.isNull /\ ret.error # ""
        /\ (~NoPattern(arg.pattern) /\ ~RegExpSyntaxError(arg.pattern.str)
            /\ arg.flags \in ValidFlags)
               => ~ret.regex.isNull /\ ret.error = "" /\ ret.regex.source = arg.pattern.str
        /\ (ret.regex.isNull /\ ret.error = "") => NoPattern(arg.pattern)

\* a good pattern with a flag string the engine rejects
C13_Witness ==
    /\ op = "compileRegex"
    /\ arg.pattern = Str(<<"a">>)
    /\ arg.flags = "x"
    /\ ret.regex.isNull
    /\ ret.error # ""

(***************************************************************************)
(* validators.js: findMatches, one exec of its while loop per step.  ret   *)
(* holds the position in the function (pc), the matches array, the scanner *)
(* regexWithG and the caller's pattern object.                             *)
(***************************************************************************)
MaxMatches == 6

FindTextChars == {"a", "b"}
FindPatternChars == {"a", "b", "|", "^"}

FindInputs ==
    [text : {Str(t) : t \in StringsUpTo(FindTextChars, MaxLen)} \cup {Undefined},
     regex : {compileRegex(Str(q), f).regex :
                  q \in StringsUpTo(FindPatternChars, MaxQueryBody), f \in {"", "i", "g", "gi"}}]

\* new RegExp(regex.source, flags with g)
regexWithG(regex) ==
    [isNull |-> FALSE, source |-> regex.source, ignoreCase |-> regex.ignoreCase,
     global |-> TRUE, lastIndex |-> 0]

\* { text: match[0], index: match.index, length: match[0].length }
MatchSpan(s, r) ==
    [text |-> SubSeq(s, r.index + 1, r.end), index |-> r.index, length |-> r.end - r.index]

\* the state after one evaluation of the loop condition, and the body when
\* exec found a match
findMatches_loop(st, s, r) ==
    IF r.found
    THEN [st EXCEPT !.matches = Append(@, MatchSpan(s, r)), !.regexWithG = r.regex]
    ELSE [st EXCEPT !.pc = "done", !.regexWithG = r.regex]

InitFind ==
    /\ jsEngine = "V8"
    /\ op = "init"
    /\ arg \in FindInputs
    /\ ret = NoRet
    /\ AppInit

\* the call up to the loop: if (!regex || !text) return []
CallFindMatches ==
    /\ op = "init"
    /\ op' = "findMatches"
    /\ ret' = IF arg.regex.isNull \/ Falsy(arg.text)
              THEN [pc |-> "done", matches |-> <<>>, regexWithG |-> NullRegex,
                    regex |-> arg.regex]
              ELSE [pc |-> "loop", matches |-> <<>>, regexWithG |-> regexWithG(arg.regex),
                    regex |-> arg.regex]
    /\ UNCHANGED <<jsEngine, arg, appVars>>

\* while ((match = regexWithG.exec(text)) !== null) matches.push(...)
FindMatchesExec ==
    /\ op = "findMatches"
    /\ ret.pc = "loop"
    /\ Len(ret.matches) < MaxMatches
    /\ ret' = findMatches_loop(ret, arg.text.str, RegExpExec(ret.regexWithG, arg.text.str))
    /\ UNCHANGED <<jsEngine, op, arg, appVars>>

NextFind == CallFindMatches \/ FindMatchesExec

SpecFind == InitFind /\ [][NextFind]_vars

\* C14: the spans findMatches collects are in strictly increasing index
\* order and do not overlap, each with the matched text and its length; the
\* result is empty when the pattern or the text is absent; the caller's
\* pattern object is left as it was
C14_MatchesAreOrderedSpans ==
    op = "findMatches" =>
        /\ \A i \in 1..Len(ret.matches) :
              /\ ret.matches[i].length = Len(ret.matches[i].text)
              /\ i > 1 => /\ ret.matches[i - 1].index < ret.matches[i].index
                          /\ ret.matches[i - 1].index + ret.matches[i - 1].length
                                 <= ret.matches[i].index
        /\ (arg.regex.isNull \/ Falsy(arg.text)) => ret.pc = "done" /\ ret.matches = <<>>
        /\ ret.regex = arg.regex

(***************************************************************************)
(* search.js: validatePattern, and highlightText applied to the pattern it *)
(* returns or to a pattern compiled with given flags                       *)
(***************************************************************************)
\* validatePattern(pattern): { valid, error, regex }; compileRegex is called
\* with its default flags 'i'
validatePattern(pattern) ==
    IF Falsy(pattern) THEN [valid |-> TRUE, error |-> "", regex |-> NullRegex]
    ELSE LET compiled == compileRegex(pattern, "i")
         IN  IF compiled.regex.isNull
             THEN [valid |-> FALSE, error |-> compiled.error, regex |-> NullRegex]
             ELSE [valid |-> TRUE, error |-> "", regex |-> compiled.regex]

MarkTextChars == {"a", "b", "A"}
MarkPatternChars == {"a", "b", "|", "["}

InitMark ==
    /\ jsEngine = "V8"
    /\ op = "init"
    /\ arg \in [text : StringsUpTo(MarkTextChars, MaxLen),
                pattern : StringsUpTo(MarkPatternChars, MaxQueryBody),
                flags : {"i", "g", "gi"}]
    /\ ret = NoRet
    /\ AppInit

\* highlightText(text, validatePattern(pattern).regex)
CallHighlightValidated ==
    /\ op = "init"
    /\ op' = "highlightValidated"
    /\ ret' = highlightText(Str(arg.text), validatePattern(Str(arg.pattern)).regex)
    /\ UNCHANGED <<jsEngine, arg, appVars>>

\* highlightText(text, compileRegex(pattern, flags).regex)
CallHighlightCompiled ==
    /\ op = "init"
    /\ op' = "highlightCompiled"
    /\ ret' = highlightText(Str(arg.text), compileRegex(Str(arg.pattern), arg.flags).regex)
    /\ UNCHANGED <<jsEngine, arg, appVars>>

NextMark == CallHighlightValidated \/ CallHighlightCompiled

SpecMark == InitMark /\ [][NextMark]_vars

\* the number of non-overlapping, non-empty occurrences of the pattern in
\* the text from offset `from` on, scanning left to right
RECURSIVE Occurrences(_, _, _, _)
Occurrences(text, alts, ignoreCase, from) ==
    LET p == FirstMatch(alts, text, from, ignoreCase) IN
    IF p = -1 THEN 0
    ELSE LET e == MatchAlts(alts, 1, text, p, ignoreCase) IN
         IF e = p THEN (IF p >= Len(text) THEN 0
                        ELSE Occurrences(text, alts, ignoreCase, p + 1))
         ELSE 1 + Occurrences(text, alts, ignoreCase, e)

\* the number of non-empty <mark> elements of an HTML string
Marks(html) ==
    Cardinality({i \in 1..Len(html) :
                     html[i] = "<mark>" /\ i < Len(html) /\ html[i + 1] # "</mark>"})

\* the pattern the caller holds: ignoreCase of the compiled pattern
MarkIgnoreCase == IF op = "highlightValidated" THEN TRUE ELSE arg.flags \in {"i", "gi"}

\* C15: for every text and every pattern a caller can obtain, the one from
\* validatePattern included, highlight wraps every occurrence of the pattern
\* in the text in a <mark> element, not only the first
C15_EveryOccurrenceIsMarked ==
    (op \in {"highlightValidated", "highlightCompiled"}
     /\ ~RegExpSyntaxError(arg.pattern) /\ arg.pattern # <<>>)
        => Marks(ret) = Occurrences(arg.text, Alternatives(arg.pattern), MarkIgnoreCase, 0)

(***************************************************************************)
(* search.js: getSuggestions, and performSearch on a suggestion's pattern  *)
(***************************************************************************)
\* [...new Set(tasks.map(t => t.tag))]: the tags in order of first occurrence
RECURSIVE UniqueTags(_, _)
UniqueTags(ts, seen) ==
    IF ts = <<>> THEN seen
    ELSE UniqueTags(Tail(ts),
                    IF \E k \in 1..Len(seen) : seen[k] = Head(ts).tag THEN seen
                    ELSE Append(seen, Head(ts).tag))

Suggestion(type, text, label, pattern) ==
    [type |-> type, text |-> text, label |-> label, pattern |-> pattern]

TagSuggestion(tag) ==
    Suggestion("tag", TagPrefix \o TemplateString(tag),
               <<"Filter by tag: ">> \o TemplateString(tag),
               TagPrefix \o TemplateString(tag))

\* utils.formatDate(new Date())
Today == Date0929

StaticSuggestions ==
    <<Suggestion("pattern", <<"upcoming">>, <<"Find upcoming tasks">>,
                 <<"^", "[", "^", "0", "-", "9", "]", "*", "$">>),
      Suggestion("pattern", <<"today">>, <<"Find today's tasks">>, Today)>>

getSuggestions(ts) ==
    LET unique == UniqueTags(ts, <<>>)
    IN  [i \in 1..Len(unique) |-> TagSuggestion(unique[i])] \o StaticSuggestions

SpacedTag == <<"a", " ", "b">>
HyphenTag == <<"a", "-", "b">>

SuggestTags == {tg \in {Work, <<"a">>, SpacedTag, HyphenTag} : validateTag(Str(tg)).valid}

SuggestTasks ==
    {Task(1, Str(ti), Str(dd), Num(9000), Str(tg), 1, 1) :
        ti \in {<<"a">>, <<"b">>}, tg \in SuggestTags, dd \in {Date0929, Date0930}}

InitSuggest ==
    /\ jsEngine = "V8"
    /\ op = "init"
    /\ arg \in SeqsUpTo(SuggestTasks, MaxTasks)
    /\ ret = NoRet
    /\ AppInit

CallGetSuggestions ==
    /\ op = "init"
    /\ op' = "getSuggestions"
    /\ ret' = [suggestions |-> getSuggestions(arg), picked |-> 0,
               result |-> performSearch(arg, Undefined, FALSE)]
    /\ UNCHANGED <<jsEngine, arg, appVars>>

\* a tag suggestion is taken: performSearch(tasks, suggestion.pattern)
SearchSuggestion(i) ==
    /\ op = "getSuggestions"
    /\ i <= Len(ret.suggestions)
    /\ ret.suggestions[i].type = "tag"
    /\ op' = "performSearch"
    /\ ret' = [ret EXCEPT !.picked = i,
                          !.result = performSearch(arg, Str(ret.suggestions[i].pattern), FALSE)]
    /\ UNCHANGED <<jsEngine, arg, appVars>>

NextSuggest ==
    \/ CallGetSuggestions
    \/ \E i \in 1..MaxTasks : op = "getSuggestions" /\ SearchSuggestion(i)

SpecSuggest == InitSuggest /\ [][NextSuggest]_vars

DistinctTags(ts) == {ts[i].tag : i \in 1..Len(ts)}

\* C16: for tasks whose tags pass validateTag, getSuggestions returns one
\* suggestion per distinct tag, all before the two static suggestions, and
\* parseQuery classifies a tag suggestion's pattern as a tag command whose
\* value is that tag, so performSearch on it returns exactly the tasks
\* carrying that tag
C16_TagSuggestionsAreCommands ==
    /\ op \in {"getSuggestions", "performSearch"} =>
          LET n == Cardinality(DistinctTags(arg)) IN
          /\ Len(ret.suggestions) = n + 2
          /\ \A i \in 1..n : ret.suggestions[i].type = "tag"
          /\ \A tg \in DistinctTags(arg) :
                Cardinality({i \in 1..n : ret.suggestions[i].text = TagPrefix \o tg.str}) = 1
          /\ \A i \in (n + 1)..(n + 2) : ret.suggestions[i].type = "pattern"
          /\ \A i \in 1..n :
                LET parsed == parseQuery(Str(ret.suggestions[i].pattern)) IN
                /\ parsed.command = "tag"
                /\ TagPrefix \o parsed.pattern = ret.suggestions[i].text
    /\ op = "performSearch" =>
          /\ ~ret.result.threw
          /\ ret.result.error = ""
          /\ ret.result.tasks =
                SelectSeq(arg, LAMBDA t :
                    TagPrefix \o t.tag.str = ret.suggestions[ret.picked].text)

(***************************************************************************)
(* state.importData applied to a payload, in a fresh application and in    *)
(* one that holds a task, a changed setting and a changed tag list         *)
(***************************************************************************)
HoursSettings == [defaultSettings EXCEPT !.unit = "hours"]

UsedStorage ==
    [tasks |-> Stored(<<Task(1, Str(<<"a">>), Str(Date0929), Num(9000), Str(Work), 1, 1)>>),
     settings |-> Stored(HoursSettings),
     tags |-> Stored(<<Academic, Work>>)]

\* the tasks of a payload: complete ones, and ones with a field missing or
\* empty
IncompleteTasks ==
    {[ImportedTask EXCEPT !.id = 0],
     [ImportedTask EXCEPT !.title = Undefined],
     [ImportedTask EXCEPT !.title = Str(<<>>)],
     [ImportedTask EXCEPT !.dueDate = Undefined],
     [ImportedTask EXCEPT !.duration = Undefined],
     [ImportedTask EXCEPT !.tag = Undefined],
     [ImportedTask EXCEPT !.tag = Str(<<>>)]}

PayloadTasks ==
    {<<>>, <<ImportedTask>>, <<[ImportedTask EXCEPT !.duration = Num(0)], LooseTask>>}
    \cup {<<t>> : t \in IncompleteTasks}
    \cup {<<ImportedTask, t>> : t \in IncompleteTasks}

ImportPayloads ==
    {NotJsonFile}
    \cup {Payload(TRUE, tk, IF IsArray(tk) THEN ts ELSE <<>>,
                  sk, IF sk = "object" THEN defaultSettings ELSE <<>>,
                  gk, IF IsArray(gk) THEN <<Work>> ELSE <<>>) :
              tk \in JsonKinds, sk \in JsonKinds, gk \in JsonKinds, ts \in PayloadTasks}

InitImport ==
    /\ jsEngine = "V8"
    /\ op = "init"
    /\ arg \in ImportPayloads
    /\ ret = NoRet
    /\ localStorage \in {EmptyStorage, UsedStorage}
    /\ tasks = loadTasks(localStorage)
    /\ settings = loadSettings(localStorage)
    /\ tags = loadTags(localStorage)
    /\ currentPage = "settings"
    /\ modalOpen = FALSE
    /\ editingTaskId = 0
    /\ clock = 1
    /\ searchQuery = <<>>
    /\ searchRegex = NullRegex
    /\ caseSensitive = FALSE
    /\ sortBy = "dueDate"
    /\ sortOrder = "asc"
    /\ rendered = <<>>

\* what state.importData leaves in memory: init() after a success
Imported(result) ==
    /\ ret' = [success |-> result.success, error |-> result.error]
    /\ localStorage' = result.storage
    /\ tasks' = IF result.success THEN loadTasks(result.storage) ELSE tasks
    /\ settings' = IF result.success THEN loadSettings(result.storage) ELSE settings
    /\ tags' = IF result.success THEN loadTags(result.storage) ELSE tags

\* state.importData(jsonString)
CallImportData ==
    /\ op = "init"
    /\ op' = "importData"
    /\ Imported(storage_importData(localStorage, arg))
    /\ UNCHANGED <<jsEngine, arg, currentPage, modalOpen, editingTaskId, clock, searchQuery,
                   searchRegex, caseSensitive, sortBy, sortOrder, rendered>>

NextImport == CallImportData

SpecImport == InitImport /\ [][NextImport]_vars

\* a value that is missing or empty
Lacking(v) == v.type = "undefined" \/ v = Str(<<>>)

\* the payload is not parseable, or tasks is not an array, tags is not an
\* array, settings is not an object (null is not one; an array is one), or a
\* task lacks a non-empty id, title, dueDate or tag or a defined duration
FailsShapeCheck(data) ==
    \/ ~data.parses
    \/ data.tasksKind # "array"
    \/ data.tagsKind # "array"
    \/ data.settingsKind \notin {"object", "array"}
    \/ \E i \in 1..Len(data.tasks) :
          \/ data.tasks[i].id = 0
          \/ Lacking(data.tasks[i].title)
          \/ Lacking(data.tasks[i].dueDate)
          \/ Lacking(data.tasks[i].tag)
          \/ data.tasks[i].duration.type = "undefined"

NumericValue(v) == IF v.type = "number" THEN v.num ELSE ToNumber(v.str)

\* a comes no later than b in ascending order of the field: titles
\* alphabetically ignoring case, ISO dates chronologically, durations by
\* numeric value
NoLater(a, b, field) ==
    IF field = "title"
    THEN ~StringLess(toLowerCase(TemplateString(b.title)), toLowerCase(TemplateString(a.title)))
    ELSE IF field = "dueDate"
    THEN ~StringLess(TemplateString(b.dueDate), TemplateString(a.dueDate))
    ELSE NumericValue(a.duration) <= NumericValue(b.duration)

OrderedBy(ts, field, order) ==
    \A i \in 1..Len(ts) : \A j \in (i + 1)..Len(ts) :
        IF order = "asc" THEN NoLater(ts[i], ts[j], field) ELSE NoLater(ts[j], ts[i], field)

\* C19: for every reachable task collection, tasks from the form and from
\* an import in any mix, and each sort field, getFilteredTasks returns
\* without throwing and its result is ordered by the field in the selected
\* direction
C19_FilteredTasksAreSorted ==
    "threw" \in DOMAIN ret =>
        /\ ~ret.threw
        /\ OrderedBy(ret.tasks, sortBy, sortOrder)

(***************************************************************************)
(* The sort options                                                        *)
(***************************************************************************)
\* the handlers of the page other than the sort buttons; the page load
\* builds the state anew
OtherOperations ==
    {"showPage", "addTaskClick", "editClick", "hideTaskModal", "formSubmit", "deleteClick",
     "searchInput", "importFile", "exportClick", "clearClick"}

\* C20: sortOrder is always 'asc' or 'desc'; a click on the sort button of
\* the current sort field flips the direction and keeps the field, a click
\* on another field makes it the sort field with direction 'asc'; search,
\* add, edit, delete, import and clear leave sortBy and sortOrder as they are
C20_SortOptionsFollowClicks ==
    [][/\ sortOrder' \in {"asc", "desc"}
       /\ (op' = "sortClick" /\ arg'.field = sortBy)
              => sortBy' = sortBy /\ sortOrder' # sortOrder
       /\ (op' = "sortClick" /\ arg'.field # sortBy)
              => sortBy' = arg'.field /\ sortOrder' = "asc"
       /\ op' \in OtherOperations => UNCHANGED <<sortBy, sortOrder>>]_vars

\* the title button has been clicked twice
C20_Witness ==
    /\ op = "sortClick"
    /\ arg.field = "title"
    /\ sortBy = "title"
    /\ sortOrder = "desc"

(***************************************************************************)
(* The ids of the task collection                                          *)
(***************************************************************************)
\* the tasks that getTaskById, updateTask and deleteTask can mean by an id
Carrying(ts, id) == {i \in 1..Len(ts) : ts[i].id = id}

\* C21: in every state reached through addTask, updateTask, deleteTask,
\* importData and clearAllData no two tasks of the collection have the same
\* id, in memory and in the store, so an id addresses exactly one task
C21_TaskIdsAreUnique ==
    /\ \A i \in 1..Len(tasks) : Cardinality(Carrying(tasks, tasks[i].id)) = 1
    /\ \A i \in 1..Len(loadTasks(localStorage)) :
          Cardinality(Carrying(loadTasks(localStorage), loadTasks(localStorage)[i].id)) = 1

(***************************************************************************)
(* validators.js: the patterns object lives as long as the module, and     *)
(* every validator call tests its field against it.  What a call can leave *)
(* behind for the next one is the lastIndex of each pattern.               *)
(***************************************************************************)
Repeats == 2

PatternNames == {"title", "duration", "date", "tag", "duplicateWord"}

\* patterns with the g flag on the title pattern
PatternFlags_titleGlobal ==
    [title |-> "g", duration |-> "", date |-> "", tag |-> "", duplicateWord |-> "i"]

\* the flags of the literals of the patterns object
PatternFlags ==
    [title |-> "", duration |-> "", date |-> "", tag |-> "", duplicateWord |-> "i"]

patterns_matches(name, str) ==
    IF name = "title" THEN patterns_title(str)
    ELSE IF name = "duration" THEN patterns_duration(str)
    ELSE IF name = "date" THEN patterns_date(str)
    ELSE IF name = "tag" THEN patterns_tag(str)
    ELSE patterns_duplicateWord(str)

\* patterns[name].test(str) with the pattern's lastIndex at li: without the
\* g flag lastIndex is neither read nor written; with it the match starts
\* at lastIndex, where a pattern that begins with ^ matches only if
\* lastIndex is 0, and lastIndex becomes the end of the match or 0
patterns_test(name, str, li) ==
    IF PatternFlags[name] \notin {"g", "gi", "ig"}
    THEN [result |-> patterns_matches(name, str), lastIndex |-> li]
    ELSE IF li > 0 THEN [result |-> FALSE, lastIndex |-> 0]
    ELSE [result |-> patterns_matches(name, str),
          lastIndex |-> IF patterns_matches(name, str) THEN Len(str) ELSE 0]

PatternError(name) ==
    IF name = "title"
    THEN "Title cannot have leading/trailing spaces or consecutive spaces"
    ELSE IF name = "duplicateWord" THEN "Title contains duplicate consecutive words"
    ELSE IF name = "duration"
    THEN "Duration must be a positive number with up to 2 decimal places"
    ELSE IF name = "date" THEN "Date must be in YYYY-MM-DD format"
    ELSE "Tag can only contain letters, spaces, and hyphens"

PatternTest(name, str, passes) == [pattern |-> name, str |-> str, passes |-> passes]

\* the pattern tests a validator call comes to, in order, once its checks
\* of type, emptiness and length have passed; passes is the test result
\* that lets the call go on
Tests(name, v) ==
    IF Falsy(v) \/ v.type # "string" THEN <<>>
    ELSE IF name = "validateDate" THEN <<PatternTest("date", v.str, TRUE)>>
    ELSE IF Len(trim(v.str)) = 0 THEN <<>>
    ELSE IF name = "validateTitle"
    THEN IF Len(trim(v.str)) > TitleMaxLength THEN <<>>
         ELSE <<PatternTest("title", trim(v.str), TRUE),
                PatternTest("duplicateWord", trim(v.str), FALSE)>>
    ELSE IF name = "validateTag"
    THEN IF Len(trim(v.str)) > TagMaxLength THEN <<>>
         ELSE <<PatternTest("tag", trim(v.str), TRUE)>>
    ELSE <<PatternTest("duration", trim(v.str), TRUE)>>

\* the tests run one after the other until one does not pass
RECURSIVE RunTests(_, _)
RunTests(tests, li) ==
    IF tests = <<>> THEN [failed |-> "", patterns |-> li]
    ELSE LET t == patterns_test(Head(tests).pattern, Head(tests).str, li[Head(tests).pattern])
         IN  IF t.result # Head(tests).passes
             THEN [failed |-> Head(tests).pattern,
                   patterns |-> [li EXCEPT ![Head(tests).pattern] = t.lastIndex]]
             ELSE RunTests(Tail(tests), [li EXCEPT ![Head(tests).pattern] = t.lastIndex])

\* what a validator returns without a pattern test: its early returns
BeforeTests(name, v, engine) ==
    IF name = "validateTitle" THEN validateTitle(v)
    ELSE IF name = "validateDuration" THEN validateDuration(v)
    ELSE IF name = "validateDate" THEN validateDate(v, engine)
    ELSE validateTag(v)

\* what a validator does after its pattern tests have passed
AfterTests(name, v, engine) ==
    IF name = "validateDuration"
    THEN IF parseFloat(trim(v.str)) < 0 THEN Invalid("Duration must be positive")
         ELSE IF parseFloat(trim(v.str)) > 1000000
              THEN Invalid("Duration must be less than 10000")
         ELSE Valid
    ELSE IF name = "validateDate"
    THEN IF DateIsNaN(v.str, engine) THEN Invalid("Invalid date") ELSE Valid
    ELSE Valid

Validated(name, v, engine, run) ==
    [result |-> IF run.failed # "" THEN Invalid(PatternError(run.failed))
                ELSE IF Tests(name, v) = <<>> THEN BeforeTests(name, v, engine)
                ELSE AfterTests(name, v, engine),
     patterns |-> run.patterns]

\* a validator called with the patterns as the calls before left them
validate(name, v, engine, li) == Validated(name, v, engine, RunTests(Tests(name, v), li))

ValidatorNames == {"validateTitle", "validateDuration", "validateDate", "validateTag"}

RepeatFieldChars == {"a", " ", "1", "."}

RepeatFields ==
    {Str(f) : f \in StringsUpTo(RepeatFieldChars, MaxLen - 1) \cup {Date0929, Date0230, Work}}
    \cup {Undefined, Num(9000)}

\* a field given to the same validator in an earlier call
EarlierFields == {Str(<<"a", "a">>), Str(<<" ", "a">>), Undefined}

RepeatTasks == SeqsUpTo({t \in SearchTasks : t.dueDate = Str(Date0929)}, MaxTasks)

RepeatInputs ==
    [name : ValidatorNames, value : RepeatFields, earlier : EarlierFields]
    \cup [name : {"compileRegex"},
          value : {Str(q) : q \in StringsUpTo(SearchPatternChars, MaxQueryBody)},
          earlier : {Str(<<"a">>), Str(<<"[">>)}]
    \cup [name : {"performSearch"},
          value : [tasks : RepeatTasks, query : {Str(<<"a">>), Str(<<"^", "a">>), Str(<<"[">>)},
                   caseSensitive : BOOLEAN],
          earlier : [tasks : {<<>>}, query : {Str(<<"x">>)}, caseSensitive : {FALSE}]]

NoLastIndex == [n \in PatternNames |-> 0]

InitRepeat ==
    /\ jsEngine \in Engines
    /\ op = "init"
    /\ arg \in RepeatInputs
    /\ ret = [results |-> <<>>, patterns |-> NoLastIndex]
    /\ AppInit

\* one call of the operation on x, the module being as the calls before
\* left it.  compileRegex and performSearch build their RegExp inside the
\* call and touch no pattern of the module.
Called(name, x, engine, li) ==
    IF name \in ValidatorNames THEN validate(name, x, engine, li)
    ELSE IF name = "compileRegex"
    THEN [result |-> compileRegex(x, "i"), patterns |-> li]
    ELSE [result |-> performSearch(x.tasks, x.query, x.caseSensitive), patterns |-> li]

Recorded(x, c) ==
    ret' = [results |-> Append(ret.results, [on |-> x, result |-> c.result]),
            patterns |-> c.patterns]

CallOperation(x) ==
    /\ Len(ret.results) < Repeats
    /\ op' = arg.name
    /\ Recorded(x, Called(arg.name, x, jsEngine, ret.patterns))
    /\ UNCHANGED <<jsEngine, arg, appVars>>

NextRepeat == CallOperation(arg.value) \/ CallOperation(arg.earlier)

SpecRepeat == InitRepeat /\ [][NextRepeat]_vars

\* the result of the operation on x in a module no call has touched
Fresh(name, x, engine) ==
    IF name = "validateTitle" THEN validateTitle(x)
    ELSE IF name = "validateDuration" THEN validateDuration(x)
    ELSE IF name = "validateDate" THEN validateDate(x, engine)
    ELSE IF name = "validateTag" THEN validateTag(x)
    ELSE IF name = "compileRegex" THEN compileRegex(x, "i")
    ELSE performSearch(x.tasks, x.query, x.caseSensitive)

\* C22: the validator and query operations are deterministic and keep no
\* state between calls: every call gives the result a first call on the
\* same arguments gives, whatever calls came before, and leaves the module
\* as it was
C22_CallsAreRepeatable ==
    op # "init" =>
        /\ \A i \in 1..Len(ret.results) :
              ret.results[i].result = Fresh(arg.name, ret.results[i].on, jsEngine)
        /\ \A i, j \in 1..Len(ret.results) :
              ret.results[i].on = ret.results[j].on
                  => ret.results[i].result = ret.results[j].result
        /\ ret.patterns = NoLastIndex

\* an accepted title has been validated twice
C22_Witness ==
    /\ op = "validateTitle"
    /\ Len(ret.results) = Repeats
    /\ ret.results[1].on = Str(<<"a", " ", "1">>)
    /\ ret.results[2].on = Str(<<"a", " ", "1">>)
    /\ ret.results[1].result.valid
    /\ ret.results[2].result.valid

(***************************************************************************)
(* The validator and query operations applied to raw values of any type;   *)
(* ret says whether the call returned or raised                            *)
(***************************************************************************)
RawValues ==
    {Str(v) : v \in StringsUpTo({"a", " ", "1", "@"}, MaxLen - 1) \cup {Date0929, TagCommand}}
    \cup {Undefined, Num(0), Num(9000)}

\* a task argument: an object with the four fields, or nothing
TaskArguments ==
    [given : {TRUE}, task : TaskInputs]
    \cup [given : {FALSE}, task : {[title |-> Undefined, dueDate |-> Undefined,
                                    duration |-> Undefined, tag |-> Undefined]}]

Returned(v) == [threw |-> FALSE, value |-> v]
Raised == [threw |-> TRUE, value |-> NoRet]

InitTotal ==
    /\ jsEngine \in Engines
    /\ op = "init"
    /\ arg \in RawValues \cup TaskArguments
    /\ ret = NoRet
    /\ AppInit

\* validateTitle, validateDuration, validateDate, validateTag on a raw value:
\* the test !v || typeof v !== 'string' comes before any method call on v
CallFieldValidator(name) ==
    /\ op = "init"
    /\ arg \in RawValues
    /\ op' = name
    /\ ret' = Returned(BeforeTests(name, arg, jsEngine))
    /\ UNCHANGED <<jsEngine, arg, appVars>>

\* validateTask(task): task.title on a missing task is a TypeError
CallTaskValidator ==
    /\ op = "init"
    /\ arg \in TaskArguments
    /\ op' = "validateTask"
    /\ ret' = IF arg.given THEN Returned(validateTask(arg.task, jsEngine)) ELSE Raised
    /\ UNCHANGED <<jsEngine, arg, appVars>>

ReturnedUnless(r) == IF r.threw THEN Raised ELSE Returned(r)

\* parseQuery(query)
CallParseAny ==
    /\ op = "init"
    /\ arg \in RawValues
    /\ op' = "parseQuery"
    /\ ret' = ReturnedUnless(parseQuery(arg))
    /\ UNCHANGED <<jsEngine, arg, appVars>>

\* performSearch(tasks, query, caseSensitive)
CallSearchAny(ts, cs) ==
    /\ op = "init"
    /\ arg \in RawValues
    /\ op' = "performSearch"
    /\ ret' = ReturnedUnless(performSearch(ts, arg, cs))
    /\ UNCHANGED <<jsEngine, arg, appVars>>

NextTotal ==
    \/ \E name \in ValidatorNames : CallFieldValidator(name)
    \/ CallTaskValidator
    \/ CallParseAny
    \/ \E ts \in RepeatTasks, cs \in BOOLEAN : CallSearchAny(ts, cs)

SpecTotal == InitTotal /\ [][NextTotal]_vars

\* C23: for every raw field value, every task argument and every query
\* value, validateTitle, validateDuration, validateDate, validateTag,
\* validateTask, parseQuery and performSearch return a result instead of
\* raising
C23_OperationsNeverThrow ==
    op # "init" => ~ret.threw

(***************************************************************************)
(* state.updateTask and state.deleteTask applied to an id, on a list that  *)
(* may hold an id twice (an import brings such lists)                      *)
(***************************************************************************)
OpsTasks ==
    {Task(id, Str(ti), Str(Date0929), Num(9000), Str(Work), 1, 1) :
        id \in 1..2, ti \in {<<"a">>, <<"b">>}}

\* the updates argument: the fields of the form, or fields that override
\* id and createdAt
OpsUpdates ==
    {[title |-> Str(<<"c">>), dueDate |-> Str(Date0930), duration |-> Num(150),
      tag |-> Str(Academic)],
     [title |-> Str(<<"c">>)],
     [id |-> 3, createdAt |-> 2]}

InitTaskOps ==
    /\ jsEngine = "V8"
    /\ op = "init"
    /\ arg \in [id : 1..3, updates : OpsUpdates]
    /\ ret = NoRet
    /\ tasks \in SeqsUpTo(OpsTasks, MaxTasks + 1)
    /\ localStorage = saveTasks(EmptyStorage, tasks)
    /\ settings = defaultSettings
    /\ tags = defaultTags
    /\ currentPage = "tasks"
    /\ modalOpen = FALSE
    /\ editingTaskId = 0
    /\ clock = 2
    /\ searchQuery = <<>>
    /\ searchRegex = NullRegex
    /\ caseSensitive = FALSE
    /\ sortBy = "dueDate"
    /\ sortOrder = "asc"
    /\ rendered = <<>>

\* after findIndex: either return false, or the change and saveTasks
Changed(r) ==
    /\ ret' = [ok |-> r.ok]
    /\ tasks' = r.tasks
    /\ localStorage' = IF r.ok THEN saveTasks(localStorage, r.tasks) ELSE localStorage

CallUpdateTask ==
    /\ op = "init"
    /\ op' = "updateTask"
    /\ Changed(updateTask(tasks, arg.id, arg.updates, clock))
    /\ UNCHANGED <<jsEngine, arg, settings, tags, currentPage, modalOpen, editingTaskId, clock,
                   searchQuery, searchRegex, caseSensitive, sortBy, sortOrder, rendered>>

CallDeleteTask ==
    /\ op = "init"
    /\ op' = "deleteTask"
    /\ Changed(deleteTask(tasks, arg.id))
    /\ UNCHANGED <<jsEngine, arg, settings, tags, currentPage, modalOpen, editingTaskId, clock,
                   searchQuery, searchRegex, caseSensitive, sortBy, sortOrder, rendered>>

NextTaskOps == CallUpdateTask \/ CallDeleteTask

SpecTaskOps == InitTaskOps /\ [][NextTaskOps]_vars

\* the first task carrying the id
First(ts, id) == CHOOSE i \in Carrying(ts, id) : \A j \in Carrying(ts, id) : i <= j

TaskFields == {"id", "title", "dueDate", "duration", "tag", "createdAt"}

\* C24: updateTask and deleteTask with an id no task carries return false
\* and leave the list and the store as they are; with an id that is present
\* they return true and change only the first task carrying it: update
\* keeps its position, takes the fields of updates, keeps the others and
\* sets updatedAt anew; delete removes it; the other tasks keep their order
C24_UpdateAndDeleteFrame ==
    [][/\ (op' \in {"updateTask", "deleteTask"} /\ Carrying(tasks, arg.id) = {})
              => ~ret'.ok /\ UNCHANGED <<tasks, localStorage>>
       /\ (op' = "updateTask" /\ Carrying(tasks, arg.id) # {})
              => /\ ret'.ok
                 /\ Len(tasks') = Len(tasks)
                 /\ \A j \in 1..Len(tasks) : j # First(tasks, arg.id) => tasks'[j] = tasks[j]
                 /\ \A f \in TaskFields :
                       tasks'[First(tasks, arg.id)][f] =
                           IF f \in DOMAIN arg.updates THEN arg.updates[f]
                           ELSE tasks[First(tasks, arg.id)][f]
                 /\ tasks'[First(tasks, arg.id)].updatedAt = clock
       /\ (op' = "deleteTask" /\ Carrying(tasks, arg.id) # {})
              => /\ ret'.ok
                 /\ Len(tasks') = Len(tasks) - 1
                 /\ \A j \in 1..Len(tasks') :
                       tasks'[j] = IF j < First(tasks, arg.id) THEN tasks[j] ELSE tasks[j + 1]]_vars

\* of two tasks with the same id the first has been updated
C24_Witness ==
    /\ op = "updateTask"
    /\ ret.ok
    /\ Len(tasks) = 3
    /\ tasks[1].id = arg.id /\ tasks[3].id = arg.id
    /\ tasks[1].updatedAt = 2 /\ tasks[3].updatedAt = 1
    /\ tasks[1].title = Str(<<"c">>)

(***************************************************************************)
(* The operations of state.js that change data, with a localStorage whose  *)
(* setItem may throw (quota exceeded, storage disabled)                    *)
(***************************************************************************)
\* localStorage.setItem(key, JSON.stringify(v)) inside try/catch: the value
\* is stored, or the call throws and nothing is stored
setItem(ls, key, v, throws) == IF throws THEN ls ELSE [ls EXCEPT ![key] = Stored(v)]

\* the place of tg[i] after Array.prototype.sort() with no comparator
SortRank(tg, i) ==
    1 + Cardinality({j \in 1..Len(tg) :
                        StringLess(tg[j], tg[i]) \/ (tg[j] = tg[i] /\ j < i)})

Array_sort(tg) == [k \in 1..Len(tg) |-> tg[CHOOSE i \in 1..Len(tg) : SortRank(tg, i) = k]]

Includes(tg, tag) == \E i \in 1..Len(tg) : tg[i] = tag

\* tags.splice(tags.indexOf(tag), 1)
WithoutTag(tg, tag) ==
    LET i == CHOOSE k \in 1..Len(tg) : tg[k] = tag /\ \A j \in 1..(k - 1) : tg[j] # tag
    IN  SubSeq(tg, 1, i - 1) \o SubSeq(tg, i + 1, Len(tg))

NewTask == Task(0, Str(<<"a">>), Str(Date0929), Num(9000), Str(Work), 0, 0)
QuotaUpdates == [title |-> Str(<<"c">>)]
QuotaTags == {<<"x", "1">>, Work}
QuotaSettings == {[unit |-> "hours"], [unit |-> "minutes"]}
QuotaOther == <<jsEngine, arg, currentPage, modalOpen, editingTaskId, clock, searchQuery,
                searchRegex, caseSensitive, sortBy, sortOrder, rendered>>

\* a state the application is in after a page load: memory holds what the
\* store holds
InitQuota ==
    /\ jsEngine = "V8"
    /\ op = "init"
    /\ arg = NoArg
    /\ ret = NoRet
    /\ tasks \in SeqsUpTo(OpsTasks, MaxTasks)
    /\ tags \in {defaultTags, <<Academic, Work>>, <<Academic, Work, <<"x", "1">>>>}
    /\ settings \in {defaultSettings, Merge(defaultSettings, [unit |-> "hours"])}
    /\ localStorage = saveTags(saveSettings(saveTasks(EmptyStorage, tasks), settings), tags)
    /\ currentPage = "settings"
    /\ modalOpen = FALSE
    /\ editingTaskId = 0
    /\ clock = 2
    /\ searchQuery = <<>>
    /\ searchRegex = NullRegex
    /\ caseSensitive = FALSE
    /\ sortBy = "dueDate"
    /\ sortOrder = "asc"
    /\ rendered = <<>>

QuotaAddTask(throws) ==
    /\ op = "init"
    /\ op' = "addTask"
    /\ tasks' = addTask(tasks, NewTask, clock)
    /\ localStorage' = setItem(localStorage, "tasks", tasks', throws)
    /\ ret' = [ok |-> TRUE]
    /\ UNCHANGED <<QuotaOther, tags, settings>>

QuotaChanged(r, throws) ==
    /\ tasks' = r.tasks
    /\ localStorage' = IF r.ok THEN setItem(localStorage, "tasks", r.tasks, throws)
                       ELSE localStorage
    /\ ret' = [ok |-> r.ok]
    /\ UNCHANGED <<QuotaOther, tags, settings>>

QuotaUpdateTask(id, throws) ==
    /\ op = "init"
    /\ op' = "updateTask"
    /\ QuotaChanged(updateTask(tasks, id, QuotaUpdates, clock), throws)

QuotaDeleteTask(id, throws) ==
    /\ op = "init"
    /\ op' = "deleteTask"
    /\ QuotaChanged(deleteTask(tasks, id), throws)

QuotaUpdateSettings(updates, throws) ==
    /\ op = "init"
    /\ op' = "updateSettings"
    /\ settings' = Merge(settings, updates)
    /\ localStorage' = setItem(localStorage, "settings", settings', throws)
    /\ ret' = [ok |-> TRUE]
    /\ UNCHANGED <<QuotaOther, tasks, tags>>

QuotaAddTag(tag, throws) ==
    /\ op = "init"
    /\ op' = "addTag"
    /\ tags' = IF Includes(tags, tag) THEN tags ELSE Array_sort(Append(tags, tag))
    /\ localStorage' = IF Includes(tags, tag) THEN localStorage
                       ELSE setItem(localStorage, "tags", tags', throws)
    /\ ret' = [ok |-> ~Includes(tags, tag)]
    /\ UNCHANGED <<QuotaOther, tasks, settings>>

QuotaRemoveTag(tag, throws) ==
    /\ op = "init"
    /\ op' = "removeTag"
    /\ tags' = IF Includes(tags, tag) THEN WithoutTag(tags, tag) ELSE tags
    /\ localStorage' = IF Includes(tags, tag) THEN setItem(localStorage, "tags", tags', throws)
                       ELSE localStorage
    /\ ret' = [ok |-> Includes(tags, tag)]
    /\ UNCHANGED <<QuotaOther, tasks, settings>>

\* storage.importData ignores what its three save calls return
ImportedInto(ls, data, t1, t2, t3) ==
    setItem(setItem(setItem(ls, "tasks", data.tasks, t1), "settings", data.settings, t2),
            "tags", data.tags, t3)

QuotaImported(result, written) ==
    /\ ret' = [ok |-> result.success]
    /\ localStorage' = IF result.success THEN written ELSE localStorage
    /\ tasks' = IF result.success THEN loadTasks(written) ELSE tasks
    /\ settings' = IF result.success THEN loadSettings(written) ELSE settings
    /\ tags' = IF result.success THEN loadTags(written) ELSE tags
    /\ UNCHANGED QuotaOther

QuotaImportData(data, t1, t2, t3) ==
    /\ op = "init"
    /\ op' = "importData"
    /\ QuotaImported(storage_importData(localStorage, data),
                     ImportedInto(localStorage, data, t1, t2, t3))

\* clearAll returns false when removeItem throws, and memory is then kept
QuotaClearAllData(throws) ==
    /\ op = "init"
    /\ op' = "clearAllData"
    /\ ret' = [ok |-> ~throws]
    /\ localStorage' = IF throws THEN localStorage ELSE clearAll(localStorage)
    /\ tasks' = IF throws THEN tasks ELSE <<>>
    /\ tags' = IF throws THEN tags ELSE defaultTags
    /\ settings' = IF throws THEN settings ELSE defaultSettings
    /\ UNCHANGED QuotaOther

NextQuota ==
    \/ \E throws \in BOOLEAN : QuotaAddTask(throws)
    \/ \E id \in 1..MaxTasks, throws \in BOOLEAN : QuotaUpdateTask(id, throws)
    \/ \E id \in 1..MaxTasks, throws \in BOOLEAN : QuotaDeleteTask(id, throws)
    \/ \E updates \in QuotaSettings, throws \in BOOLEAN : QuotaUpdateSettings(updates, throws)
    \/ \E tag \in QuotaTags, throws \in BOOLEAN : QuotaAddTag(tag, throws)
    \/ \E tag \in QuotaTags, throws \in BOOLEAN : QuotaRemoveTag(tag, throws)
    \/ \E data \in ImportFiles, t1 \in BOOLEAN, t2 \in BOOLEAN, t3 \in BOOLEAN :
          QuotaImportData(data, t1, t2, t3)
    \/ \E throws \in BOOLEAN : QuotaClearAllData(throws)

SpecQuota == InitQuota /\ [][NextQuota]_vars

\* C25: after an operation that changes data has reported success, loading
\* tasks, tags and settings from the store yields the tasks, tags and
\* settings in memory, also when a write to localStorage has failed
C25_SuccessMeansPersisted ==
    (op # "init" /\ ret.ok) =>
        /\ loadTasks(localStorage) = tasks
        /\ loadSettings(localStorage) = settings
        /\ loadTags(localStorage) = tags

(***************************************************************************)
(* The search path of the application, state.setSearchQuery followed by    *)
(* state.getFilteredTasks, next to search.performSearch on the same tasks  *)
(***************************************************************************)
PathTasks ==
    {Task(id, Str(ti), Str(Date0929), Num(9000), Str(Work), 1, 1) :
        id \in 1..2, ti \in {<<"a">>, <<"b", "a">>}}

PathQueries == {<<>>, <<"a">>, <<"b">>, <<"^", "W">>, <<"[">>, TagCommand}

InitPath ==
    /\ jsEngine = "V8"
    /\ op = "init"
    /\ arg \in [query : PathQueries, caseSensitive : BOOLEAN]
    /\ ret = [filtered |-> <<>>, searched |-> <<>>]
    /\ tasks \in SeqsUpTo(PathTasks, MaxTasks)
    /\ localStorage = saveTasks(EmptyStorage, tasks)
    /\ settings = defaultSettings
    /\ tags = defaultTags
    /\ currentPage = "tasks"
    /\ modalOpen = FALSE
    /\ editingTaskId = 0
    /\ clock = 2
    /\ searchQuery = <<>>
    /\ searchRegex = NullRegex
    /\ caseSensitive = FALSE
    /\ sortBy = "dueDate"
    /\ sortOrder = "asc"
    /\ rendered = <<>>

CallSetSearchQuery ==
    /\ op = "init"
    /\ op' = "setSearchQuery"
    /\ searchQuery' = arg.query
    /\ caseSensitive' = arg.caseSensitive
    /\ searchRegex' = setSearchQuery(arg.query, arg.caseSensitive)
    /\ UNCHANGED <<jsEngine, arg, ret, tasks, tags, settings, localStorage, currentPage,
                   modalOpen, editingTaskId, clock, sortBy, sortOrder, rendered>>

\* what a call of getFilteredTasks returns and leaves in appState.searchRegex
Filtered(f) ==
    /\ ret' = [ret EXCEPT !.filtered = Append(@, f.tasks)]
    /\ searchRegex' = f.regex

CallGetFilteredTasks ==
    /\ op # "init"
    /\ Len(ret.filtered) < Repeats
    /\ op' = "getFilteredTasks"
    /\ Filtered(getFilteredTasks(tasks, searchRegex, sortBy, sortOrder, jsEngine))
    /\ UNCHANGED <<jsEngine, arg, tasks, tags, settings, localStorage, currentPage, modalOpen,
                   editingTaskId, clock, searchQuery, caseSensitive, sortBy, sortOrder,
                   rendered>>

\* search.performSearch(state.getTasks(), query, caseSensitive)
CallPerformSearchOnTasks ==
    /\ op # "init"
    /\ ret.searched = <<>>
    /\ op' = "performSearch"
    /\ ret' = [ret EXCEPT !.searched =
                  <<performSearch(tasks, Str(arg.query), arg.caseSensitive).tasks>>]
    /\ UNCHANGED <<jsEngine, arg, appVars>>

NextPath == CallSetSearchQuery \/ CallGetFilteredTasks \/ CallPerformSearchOnTasks

SpecPath == InitPath /\ [][NextPath]_vars

\* the searched text of the task matches the stored pattern
MatchesStored(t) ==
    searchRegex.isNull \/ RegExpTest([searchRegex EXCEPT !.lastIndex = 0], searchText(t)).found

Elements(list) == {list[i] : i \in 1..Len(list)}

\* C26: with tasks, query, case flag and sort options left alone,
\* consecutive calls of getFilteredTasks return the same list, and that list
\* holds every task whose searched text matches the stored pattern
C26_FilteredTasksAreStable ==
    \A k \in 1..Len(ret.filtered) :
        /\ ret.filtered[k] = ret.filtered[1]
        /\ \A i \in 1..Len(tasks) :
              MatchesStored(tasks[i]) => tasks[i] \in Elements(ret.filtered[k])

\* C27: for a query that is no structured command, setSearchQuery followed
\* by getFilteredTasks returns the set of tasks that performSearch returns
\* for the same tasks, query and case flag
C27_SearchPathAgreesWithEngine ==
    (/\ Len(ret.filtered) >= 1
     /\ Len(ret.searched) = 1
     /\ parseQuery(Str(arg.query)).command = "null")
        => Elements(ret.filtered[1]) = Elements(ret.searched[1])

(***************************************************************************)
(* The loop of findMatches, iteration by iteration                         *)
(***************************************************************************)
\* C28: findMatches terminates: every iteration that collects a match moves
\* the scan position (lastIndex of the scanner) strictly forward, and no
\* more than length(text) + 1 matches are collected
C28_ScanPositionAdvances ==
    [][(op = "findMatches" /\ Len(ret'.matches) > Len(ret.matches))
          => /\ ret'.regexWithG.lastIndex > ret.regexWithG.lastIndex
             /\ Len(ret'.matches) <= Len(StringOrEmpty(arg.text)) + 1]_vars

====
